---- MODULE Spec2Model ----
(***************************************************************************)
(* A model of the webpack 5.0.0-beta.7 core as annotated in this           *)
(* repository: the Compiler lifecycle (run / compile / emitAssets) and the *)
(* request parsing of NormalModuleFactory.                                 *)
(*                                                                         *)
(* Asynchronous steps (hooks called with callAsync, cache and file-system  *)
(* operations) are modelled by one action per completion callback: the     *)
(* action is what the callback does, up to the next asynchronous call.     *)
(* process.nextTick hops are folded into the action that schedules them.   *)
(***************************************************************************)
EXTENDS Integers, Sequences, FiniteSets, TLC

\* Bound on the accepted run() calls and on the compile() calls of a behaviour.
MaxBuilds == 2

NoErr == "null"
ConcurrentCompilationError == "ConcurrentCompilationError"

\* Output file names of the assets (strings of characters) and the Source
\* objects a compilation can hold.  Two distinct Source objects may render the
\* same bytes.
Files == { <<"a">>, <<"a", "?", "q">> }
Sources == { "s1", "s2", "s3" }
NoSource == "none"
\* What a path of the output file system holds when it is no regular file
\* (file contents are sequences of bytes).
Missing == <<-1>>
Directory == <<-2>>
Contents == { <<1>>, <<2>>, <<1, 2>> }

VARIABLES
    \* Compiler fields and the position of the run in flight
    running,            \* Compiler.running
    watchMode,          \* Compiler.watchMode
    pc,                 \* the asynchronous step the run in flight waits for
    nRuns,              \* accepted run() calls so far; the last one is in flight
    lastCall,           \* outcome of the latest run()/watch() call
    log,                \* the steps the latest accepted run started, in order
    cbs,                \* the invocations of the callback of that run
    reported,           \* the first error a step of that run reported
    \* compile()
    nCompile,           \* compile() calls so far
    compiles,           \* per compile() call: its params and its Compilation
    compilation,        \* the latest Compilation constructed (0: none)
    nCompilations,      \* Compilation objects constructed so far
    nFactories,         \* module factory objects constructed so far
    \* emitAssets
    immutable,          \* the files whose asset info is flagged immutable
    disk,               \* output file system: target path -> content
    \* of the latest Compilation (an earlier one is no longer looked at):
    assets,             \* compilation.assets: file -> Source
    emittedAssets,      \* compilation.emittedAssets
    comparedForEmitAssets, \* compilation.comparedForEmitAssets
    fsOps,              \* per file: the file-system calls of its iteration
    assetSize,          \* per file: the size updateAsset set (-1: none)
    \* of the Compiler:
    writtenFiles,       \* Compiler._assetEmittingWrittenFiles: path -> generation
    sourceCache,        \* Compiler._assetEmittingSourceCache: Source -> entry
    tasks,              \* the asset iterations of forEachLimit still in flight
    join,               \* the forEachLimit join of the emitAssets in flight
    prevEmit,           \* the assets the previous emitFiles emitted (if it did)
    compareBeforeEmit,  \* options.output.compareBeforeEmit
    files,              \* the asset names the builds can produce
    \* NormalModuleFactory "resolve" tap
    request,            \* data.request: the request handed to the resolve tap
    written,            \* how that request was written, part by part
    matched,            \* what ruleSet.exec returns for it
    nf,                 \* the resolve tap in flight
    created,            \* what the resolve tap called back with
    registered,         \* whether settings.type has a parser, a generator
    factorized,         \* the factorize tap in flight, and its callback
    \* NormalModuleFactory.resolveRequestArray
    rraArray,           \* the array of loader items handed to it
    resolvable,         \* the requests the loader resolver can resolve
    rraItems,           \* per item: where its resolution stands
    rraAsked,           \* the requests the resolver was asked, per item
    rraDone,            \* what resolveRequestArray called back with
    \* NormalModuleFactory.create
    dependencyCache,    \* the process-wide dependencyCache
    creates,            \* the calls of create() made so far, on any factory
    \* JavascriptModulesPlugin.renderModule
    renderCall,         \* the module to render, and what rendering it meets
    rendered,           \* what renderModule returned or threw
    \* JavascriptModulesPlugin.renderBootstrap and renderMain
    chunk,              \* the chunk: its runtime requirements, its entries
    bootstrap,          \* what renderBootstrap returned to the chunkHash tap
    main,               \* what renderMain returned
    \* The emitted runtime: __webpack_require__
    webpackModules,     \* __webpack_modules__: per id, what its factory requires
    strictModuleExceptionHandling,  \* output.strictModuleExceptionHandling
    throwing,           \* the module whose factory throws (if one does)
    webpackModuleCache, \* __webpack_module_cache__
    stack,              \* the calls of __webpack_require__ in execution
    executions,         \* per id, how often its factory was started
    required,           \* the ids the code outside the modules required
    returned,           \* what the last call of __webpack_require__ returned
    \* AssetGenerator.generate
    generateCall,       \* the arguments of AssetGenerator.generate
    generated,          \* what generate returned, and the requirements it left
    \* One module rendered for two chunks
    sharedModule,       \* the module two chunks share, as renderModule sees it
    allModules,         \* per chunk, buildInfo.strict of its other modules
    renders,            \* per chunk, what renderModule returned for the shared module
    \* webpack(options, callback)
    webpackCall,        \* the call of webpack(): its arguments, how far it is
    \* One join made by needCalls
    needed,             \* the number of sub-tasks the join was made for
    timesLeft,          \* `times` of the closure needCalls returned
    completions,        \* the sub-tasks that called back, in order, with the error
    continuations,      \* the calls of the continuation, with the error
    \* getParser and getGenerator of one factory
    instanceCache,      \* parserCache and generatorCache: the instance per type and options object
    hookRuns,           \* how often the createParser / createGenerator hook ran, per type and options object
    nInstances,         \* how many parsers and generators the hooks have made
    gets,               \* the calls of getParser / getGenerator so far, with what each returned
    \* One parse of a module with import statements
    program,            \* the statements of the module being parsed
    walk,               \* where the parser is: the pass, the statement, the specifier
    lastHarmonyImportOrder,\* parser.state.lastHarmonyImportOrder, 0 for undefined
    tagData,            \* per variable name, the settings tagVariable stored, or NoTag
    moduleDependencies, \* parser.state.module.dependencies, in the order of addDependency
    factorizeOrder,     \* the dependencies factorized so far, in that order
    \* The factorize tap of ExternalModuleFactoryPlugin on an array of externals
    externals,          \* the array of externals: how each entry answers
    externalsCall,      \* handleExternals on the array: i, the asyncFlag of each next(), what is consulted, pending and called back
    \* renderMain of a chunk of strict and non-strict modules
    strictChunk,        \* the javascript modules of a chunk: strict or not, entry or not; result.allowInlineStartup
    strictMain,         \* what renderMain rendered of them: the prologue, the module map, the inlined entries
    \* Template.getModulesArrayBounds and Template.renderChunkModules
    chunkModuleList,    \* the modules given to Template.renderChunkModules: id, and whether renderModule gives a source
    removedIds,         \* chunk.removedModules of a HotUpdateChunk, empty otherwise
    arrayBounds,        \* what Template.getModulesArrayBounds returned for the modules
    chunkModulesSource, \* what Template.renderChunkModules returned
    \* Two builds of one chunk, its modules added in different orders
    moduleTable,        \* the modules of the two builds: id, and whether javascript is a source type
    insertionOrder,     \* per build, the modules of the chunk in the order they were added
    inlinedEntry,       \* the entry module renderMain inlines, 0 for none
    chunkRenders,       \* per build, the module map renderChunk rendered
    mainRenders,        \* per build, the module map renderMain rendered
    contentHashes       \* per build, what the contentHash tap fed the hash

lifeVars == <<running, watchMode, pc, nRuns, lastCall, log, cbs, reported>>
compVars == <<nCompile, compiles, compilation, nCompilations, nFactories>>
emitVars == <<immutable, disk, assets, emittedAssets, comparedForEmitAssets,
              writtenFiles, sourceCache, tasks, join, fsOps, assetSize,
              prevEmit, compareBeforeEmit, files>>
nmfVars == <<request, written, matched, nf, created, registered, factorized>>
rraVars == <<rraArray, resolvable, rraItems, rraAsked, rraDone>>
createVars == <<dependencyCache, creates>>
renderVars == <<renderCall, rendered>>
mainVars == <<chunk, bootstrap, main>>
runtimeVars == <<webpackModules, strictModuleExceptionHandling, throwing,
                 webpackModuleCache, stack, executions, required, returned>>
assetVars == <<generateCall, generated>>
sharedVars == <<sharedModule, allModules, renders>>
webpackVars == <<webpackCall>>
joinVars == <<needed, timesLeft, completions, continuations>>
getVars == <<instanceCache, hookRuns, nInstances, gets>>
parseVars == <<program, walk, lastHarmonyImportOrder, tagData, moduleDependencies, factorizeOrder>>
externalVars == <<externals, externalsCall>>
strictVars == <<strictChunk, strictMain>>
templateVars == <<chunkModuleList, removedIds, arrayBounds, chunkModulesSource>>
orderVars == <<moduleTable, insertionOrder, inlinedEntry, chunkRenders, mainRenders, contentHashes>>
vars == <<lifeVars, compVars, emitVars, nmfVars, rraVars, createVars,
          renderVars, mainVars, runtimeVars,
    assetVars,
    sharedVars, webpackVars, joinVars, getVars, parseVars, externalVars, strictVars, templateVars, orderVars>>

\* What the steps of one part leave alone of the others.
javascriptVars == <<renderVars, mainVars, runtimeVars,
    assetVars,
    sharedVars>>
besideWebpack == <<nmfVars, rraVars, createVars, javascriptVars, joinVars, getVars, parseVars, externalVars, strictVars, templateVars, orderVars>>
besideCompiler == <<besideWebpack, webpackVars>>
besideResolve == <<lifeVars, compVars, emitVars, rraVars, createVars,
                   javascriptVars,
    webpackVars, joinVars, getVars, parseVars, externalVars, strictVars, templateVars, orderVars>>
besideLoaders == <<lifeVars, compVars, emitVars, nmfVars, createVars,
                   javascriptVars,
    webpackVars, joinVars, getVars, parseVars, externalVars, strictVars, templateVars, orderVars>>
besideCreate == <<lifeVars, compVars, emitVars, nmfVars, rraVars,
                  javascriptVars,
    webpackVars, joinVars, getVars, parseVars, externalVars, strictVars, templateVars, orderVars>>
besideFactory == <<lifeVars, compVars, emitVars, nmfVars, rraVars, createVars,
    webpackVars, joinVars, getVars, parseVars, externalVars, strictVars, templateVars, orderVars>>
besideRenderModule == <<besideFactory, mainVars, runtimeVars,
    assetVars,
    sharedVars>>
besideRenderMain == <<besideFactory, renderVars, runtimeVars,
    assetVars,
    sharedVars>>
besideRuntime == <<besideFactory, renderVars, mainVars,
    assetVars,
    sharedVars>>
besideAsset == <<besideFactory, renderVars, mainVars, runtimeVars,
    sharedVars>>
besideShared == <<besideFactory, renderVars, mainVars, runtimeVars, assetVars>>
besideJoin == <<lifeVars, compVars, emitVars, nmfVars, rraVars, createVars,
                javascriptVars, webpackVars, getVars, parseVars, externalVars, strictVars, templateVars, orderVars>>
besideGet ==
  <<lifeVars, compVars, emitVars, nmfVars, rraVars, createVars, renderVars,
    mainVars, runtimeVars, assetVars, sharedVars, webpackVars, joinVars, parseVars, externalVars, strictVars, templateVars, orderVars>>
besideParse ==
  <<lifeVars, compVars, emitVars, nmfVars, rraVars, createVars, renderVars,
    mainVars, runtimeVars, assetVars, sharedVars, webpackVars, joinVars,
    getVars, externalVars, strictVars, templateVars, orderVars>>
besideExternals ==
  <<lifeVars, compVars, emitVars, nmfVars, rraVars, createVars, renderVars,
    mainVars, runtimeVars, assetVars, sharedVars, webpackVars, joinVars,
    getVars, parseVars, strictVars, templateVars, orderVars>>
besideStrict ==
  <<lifeVars, compVars, emitVars, nmfVars, rraVars, createVars, renderVars,
    mainVars, runtimeVars, assetVars, sharedVars, webpackVars, joinVars,
    getVars, parseVars, externalVars, templateVars, orderVars>>
besideTemplate ==
  <<lifeVars, compVars, emitVars, nmfVars, rraVars, createVars, renderVars,
    mainVars, runtimeVars, assetVars, sharedVars, webpackVars, joinVars,
    getVars, parseVars, externalVars, strictVars, orderVars>>
besideOrder ==
  <<lifeVars, compVars, emitVars, nmfVars, rraVars, createVars, renderVars,
    mainVars, runtimeVars, assetVars, sharedVars, webpackVars, joinVars,
    getVars, parseVars, externalVars, strictVars, templateVars>>

Ev(name, c) == [ev |-> name, c |-> c]

(***************************************************************************)
(* Compiler.run: finalCallback, and the steps before compile               *)
(***************************************************************************)

\* The log of the run in flight.
L == log

\* A step of the run in flight completed without error: the log becomes `l`
\* (the steps started are appended) and the run waits for `next`.
Goto(next, l) ==
    /\ pc' = next
    /\ log' = l
    /\ UNCHANGED <<running, cbs>>

\* A plausible slip: finalCallback returns after the failed hook.
finalCallbackSilentOnError(err, stats, l) ==
    /\ running' = FALSE
    /\ pc' = "idle"
    /\ log' = l \o <<Ev("cache.beginIdle", 0)>>
                 \o (IF err # NoErr THEN <<Ev("failed", 0)>>
                     ELSE <<Ev("callback", stats), Ev("afterDone", stats)>>)
    /\ cbs' = IF err # NoErr THEN cbs
              ELSE Append(cbs, [err |-> err, stats |-> stats])

\* A plausible slip: the afterDone hook is called before the user's callback.
finalCallbackAfterDoneFirst(err, stats, l) ==
    /\ running' = FALSE
    /\ pc' = "idle"
    /\ log' = l \o <<Ev("cache.beginIdle", 0)>>
                 \o (IF err # NoErr THEN <<Ev("failed", 0)>> ELSE <<>>)
                 \o <<Ev("afterDone", stats), Ev("callback", stats)>>
    /\ cbs' = Append(cbs, [err |-> err, stats |-> stats])

\* finalCallback(err, stats) of run(): cache.beginIdle, running = false, the
\* failed hook on error, the user's callback, the afterDone hook.
finalCallback(err, stats, l) ==
    /\ running' = FALSE
    /\ pc' = "idle"
    /\ log' = l \o <<Ev("cache.beginIdle", 0)>>
                 \o (IF err # NoErr THEN <<Ev("failed", 0)>> ELSE <<>>)
                 \o <<Ev("callback", stats), Ev("afterDone", stats)>>
    /\ cbs' = Append(cbs, [err |-> err, stats |-> stats])

\* A step reports `err` to its callback (NoErr: it reports none).
Report(err) ==
    reported' = IF err # NoErr /\ reported = NoErr THEN err ELSE reported

\* A plausible slip: the running guard is missing, the call is always accepted.
RunAcceptedUnguarded == nRuns < MaxBuilds /\ nCompile < MaxBuilds

\* run() gets past its guard.  (The bounds of the model are part of it.)
RunAccepted == ~running /\ nRuns < MaxBuilds /\ nCompile < MaxBuilds

\* Compiler.run(callback)
run ==
    /\ lastCall' = [op |-> "run", err |-> IF RunAccepted THEN NoErr
                            ELSE ConcurrentCompilationError]
    /\ IF RunAccepted
       THEN /\ running' = TRUE
            /\ nRuns' = nRuns + 1
            /\ pc' = "endIdle"
            /\ log' = <<Ev("cache.endIdle", 0)>>
            /\ cbs' = <<>>
            /\ reported' = NoErr
            /\ UNCHANGED watchMode
       ELSE /\ running
            /\ UNCHANGED <<running, watchMode, pc, nRuns, log, cbs, reported>>
    /\ UNCHANGED <<compVars, emitVars>>

\* The user calls run(callback).
Run == run /\ UNCHANGED besideCompiler

\* Compiler.watch(watchOptions, handler).  An accepted call constructs a
\* Watching, which then drives the builds.
watch ==
    /\ lastCall' = [op |-> "watch", err |-> IF running THEN ConcurrentCompilationError
                            ELSE NoErr]
    /\ IF running
       THEN UNCHANGED <<running, watchMode, pc>>
       ELSE /\ running' = TRUE
            /\ watchMode' = TRUE
            /\ pc' = "watching"
    /\ UNCHANGED <<nRuns, log, cbs, reported, compVars, emitVars>>

\* The user calls watch(watchOptions, handler).
Watch == watch /\ UNCHANGED besideCompiler

\* The objects the factories and the Compilation are: fresh identities.
createNormalModuleFactory == nFactories + 1
createContextModuleFactory == nFactories + 2

newCompilationParams ==
    [normalModuleFactory |-> createNormalModuleFactory,
     contextModuleFactory |-> createContextModuleFactory]

\* A plausible slip: the Compilation of the last compile() is used again.
createCompilationReused ==
    IF nCompilations = 0 THEN 1 ELSE nCompilations

createCompilation == nCompilations + 1

\* compile(callback) up to its first asynchronous step, the beforeCompile hook.
\* `l` is the log of the run up to the call.
compile(l) ==
    /\ nCompile' = nCompile + 1
    /\ nFactories' = nFactories + 2
    /\ compiles' = Append(compiles, [params |-> newCompilationParams, comp |-> 0])
    /\ UNCHANGED <<compilation, nCompilations>>
    /\ Goto("beforeCompile", l \o <<Ev("compile()", 0), Ev("beforeCompile", 0)>>)

\* finalCallback from a step that changes nothing of compile or emit.
Final(err, stats, l) ==
    /\ finalCallback(err, stats, l)
    /\ UNCHANGED <<compVars, emitVars>>

Errs(e) == {NoErr, e}

\* cache.endIdle called back
EndIdleDone ==
    /\ pc = "endIdle"
    /\ \E err \in Errs("E_endIdle") :
         /\ Report(err)
         /\ IF err # NoErr THEN Final(err, 0, L)
            ELSE /\ Goto("beforeRun", L \o <<Ev("beforeRun", 0)>>)
                 /\ UNCHANGED <<compVars, emitVars>>
    /\ UNCHANGED <<watchMode, nRuns, lastCall, besideCompiler>>

\* hooks.beforeRun called back
BeforeRunDone ==
    /\ pc = "beforeRun"
    /\ \E err \in Errs("E_beforeRun") :
         /\ Report(err)
         /\ IF err # NoErr THEN Final(err, 0, L)
            ELSE /\ Goto("run", L \o <<Ev("run", 0)>>)
                 /\ UNCHANGED <<compVars, emitVars>>
    /\ UNCHANGED <<watchMode, nRuns, lastCall, besideCompiler>>

\* hooks.run called back
RunHookDone ==
    /\ pc = "run"
    /\ \E err \in Errs("E_run") :
         /\ Report(err)
         /\ IF err # NoErr THEN Final(err, 0, L)
            ELSE /\ Goto("readRecords", L \o <<Ev("readRecords", 0)>>)
                 /\ UNCHANGED <<compVars, emitVars>>
    /\ UNCHANGED <<watchMode, nRuns, lastCall, besideCompiler>>

\* The ways readRecords ends: no recordsInputPath, a stat error (the file does
\* not exist: ignored), a read error, a parse error, records read.
ReadRecordsOutcomes == {"noPath", "statError", "readError", "parseError", "read"}

readRecords(outcome) ==
    CASE outcome = "readError" -> "E_readRecords"
      [] outcome = "parseError" -> "E_parseRecords"
      [] OTHER -> NoErr

\* readRecords called back
ReadRecordsDone ==
    /\ pc = "readRecords"
    /\ \E outcome \in ReadRecordsOutcomes :
         LET err == readRecords(outcome) IN
         /\ Report(err)
         /\ IF err # NoErr THEN Final(err, 0, L)
            ELSE /\ compile(L)
                 /\ UNCHANGED emitVars
    /\ UNCHANGED <<watchMode, nRuns, lastCall, besideCompiler>>

(***************************************************************************)
(* Compiler.compile                                                        *)
(***************************************************************************)

\* A plausible slip: the done hook and the callback get no Stats.
StatsUndefined(c) == 0

\* The Stats of a Compilation is identified with the Compilation.
Stats(c) == c

\* newCompilation(params): construct the Compilation, then the
\* thisCompilation and compilation hooks.
newCompilation(c) == <<Ev("thisCompilation", c), Ev("compilation", c)>>

\* hooks.beforeCompile called back: the compile hook, newCompilation, and the
\* make hook is called.
BeforeCompileDone ==
    /\ pc = "beforeCompile"
    /\ \E err \in Errs("E_beforeCompile") :
         /\ Report(err)
         /\ IF err # NoErr THEN Final(err, 0, L)
            ELSE LET c == createCompilation IN
                 /\ compilation' = c
                 /\ nCompilations' = nCompilations + 1
                 /\ compiles' = [compiles EXCEPT ![Len(compiles)].comp = c]
                 /\ Goto("make", L \o <<Ev("compile", 0)>> \o newCompilation(c)
                                   \o <<Ev("make", c)>>)
                 /\ assets' = [f \in Files |-> NoSource]
                 /\ emittedAssets' = {}
                 /\ comparedForEmitAssets' = {}
                 /\ fsOps' = [f \in Files |-> <<>>]
                 /\ assetSize' = [f \in Files |-> -1]
                 /\ prevEmit' = IF join.c # compilation THEN prevEmit
                                ELSE IF join.called /\ join.left = 0 THEN assets
                                ELSE [f \in Files |-> NoSource]
                 /\ UNCHANGED <<nCompile, nFactories, immutable, disk,
                                writtenFiles, sourceCache, tasks, join,
                                compareBeforeEmit, files>>
    /\ UNCHANGED <<watchMode, nRuns, lastCall, besideCompiler>>

\* hooks.make called back; on success compilation.finish is called.
MakeDone ==
    /\ pc = "make"
    /\ \E err \in Errs("E_make") :
         /\ Report(err)
         /\ IF err # NoErr THEN Final(err, 0, L)
            ELSE /\ Goto("finish", L \o <<Ev("finish", compilation)>>)
                 /\ UNCHANGED <<compVars, emitVars>>
    /\ UNCHANGED <<watchMode, nRuns, lastCall, besideCompiler>>

\* compilation.finish called back; on success compilation.seal is called.
FinishDone ==
    /\ pc = "finish"
    /\ \E err \in Errs("E_finish") :
         /\ Report(err)
         /\ IF err # NoErr THEN Final(err, 0, L)
            ELSE /\ Goto("seal", L \o <<Ev("seal", compilation)>>)
                 /\ UNCHANGED <<compVars, emitVars>>
    /\ UNCHANGED <<watchMode, nRuns, lastCall, besideCompiler>>

\* The assets a sealed Compilation can hold: any file may be absent.
AssetMaps ==
    { a \in [Files -> Sources \cup {NoSource}] :
        \A f \in Files \ files : a[f] = NoSource }

\* compilation.seal called back: on success the Compilation holds its assets
\* and the afterCompile hook is called.
SealDone ==
    /\ pc = "seal"
    /\ \E err \in Errs("E_seal") :
         /\ Report(err)
         /\ IF err # NoErr THEN Final(err, 0, L)
            ELSE /\ assets' \in AssetMaps
                 /\ Goto("afterCompile", L \o <<Ev("afterCompile", compilation)>>)
                 /\ UNCHANGED <<compVars, immutable, disk, emittedAssets,
                                comparedForEmitAssets, writtenFiles, sourceCache,
                                tasks, join, fsOps, assetSize, prevEmit,
                                compareBeforeEmit, files>>
    /\ UNCHANGED <<watchMode, nRuns, lastCall, besideCompiler>>

\* A plausible slip: onCompiled goes on to emit whatever compile() reported.
onCompiledIgnoresError(err) == FALSE

\* onCompiled(err, compilation) takes the failure exit.
onCompiledFails(err) == err # NoErr

\* hooks.afterCompile called back, so compile() calls onCompiled: the
\* shouldEmit hook; when it returns false the done hook is called, otherwise
\* emitAssets, whose first step is the emit hook.
AfterCompileDone ==
    /\ pc = "afterCompile"
    /\ \E err \in Errs("E_afterCompile"), shouldEmit \in BOOLEAN :
         /\ Report(err)
         /\ IF onCompiledFails(err) THEN Final(err, 0, L)
            ELSE IF ~shouldEmit
            THEN /\ Goto("doneNoEmit", L \o <<Ev("shouldEmit=false", compilation),
                                              Ev("done", Stats(compilation))>>)
                 /\ UNCHANGED <<compVars, emitVars>>
            ELSE /\ Goto("emit", L \o <<Ev("shouldEmit", compilation),
                                        Ev("emitAssets", compilation),
                                        Ev("emit", compilation)>>)
                 /\ UNCHANGED <<compVars, emitVars>>
    /\ UNCHANGED <<watchMode, nRuns, lastCall, besideCompiler>>

\* hooks.done called back on the shouldEmit === false path
DoneNoEmitDone ==
    /\ pc = "doneNoEmit"
    /\ \E err \in Errs("E_done") :
         /\ Report(err)
         /\ IF err # NoErr THEN Final(err, 0, L)
            ELSE Final(NoErr, Stats(compilation), L)
    /\ UNCHANGED <<watchMode, nRuns, lastCall, besideCompiler>>

(***************************************************************************)
(* Compiler.emitAssets                                                     *)
(***************************************************************************)

\* String.prototype.indexOf for one character, counting from 1 (0: absent).
IndexOf(str, ch) ==
    IF \E i \in 1..Len(str) : str[i] = ch
    THEN CHOOSE i \in 1..Len(str) :
             str[i] = ch /\ \A j \in 1..(i - 1) : str[j] # ch
    ELSE 0

\* The target path of an asset: the file name up to its query string.  (The
\* join with the output path is one-to-one and left out.)
targetPath(file) ==
    IF IndexOf(file, "?") > 0
    THEN SubSeq(file, 1, IndexOf(file, "?") - 1)
    ELSE file

Paths == { targetPath(f) : f \in Files }

\* The bytes a Source renders.
getContent(source) ==
    CASE source = "s1" -> <<1>>
      [] source = "s2" -> <<1>>
      [] source = "s3" -> <<1, 2>>

\* Buffer.prototype.equals
BufferEquals(a, b) ==
    Len(a) = Len(b) /\ \A i \in 1..Len(a) : a[i] = b[i]

IsFile(p) == disk[p] \in Contents

\* The cache entry of a Source never written: no sizeOnlySource, no writtenTo.
NewCacheEntry == [sizeOnlySource |-> -1, writtenTo |-> [p \in Paths |-> 0]]

\* updateWithReplacementSource(size), on the source cache `sc`
updateWithReplacementSource(sc, source, size) ==
    IF sc[source].sizeOnlySource = -1
    THEN [sc EXCEPT ![source].sizeOnlySource = size]
    ELSE sc

\* A plausible slip: what was written before is not remembered.
skipsWriteNever(source, path) == FALSE

\* writeOut finds that this Source was the last one written to the path.
skipsWrite(source, path) ==
    /\ writtenFiles[path] # 0
    /\ sourceCache[source].writtenTo[path] = writtenFiles[path]

\* What writeOut does with an asset: "skip" it, "write" it without looking
\* (processMissingFile), or "stat" the target first.
writeOut(file, source) ==
    IF skipsWrite(source, targetPath(file)) THEN "skip"
    ELSE IF writtenFiles[targetPath(file)] # 0 /\ file \notin immutable
    THEN "write"
    ELSE IF compareBeforeEmit THEN "stat"
    ELSE "write"

FirstFsCall(kind) == IF kind = "stat" THEN "stat" ELSE "writeFile"

\* A plausible slip: a barrier of size one: the first iteration that ends
\* without error ends the emit.
TaskCallbackFirstEnds(c, err) ==
    IF join.c = c /\ ~join.called
    THEN IF err # NoErr
         THEN /\ join' = [join EXCEPT !.called = TRUE]
              /\ Report(err)
              /\ finalCallback(err, 0, L)
         ELSE /\ join' = [join EXCEPT !.called = TRUE, !.left = 0]
              /\ Goto("afterEmit", L \o <<Ev("afterEmit", c)>>)
              /\ UNCHANGED reported
    ELSE UNCHANGED <<join, running, pc, log, cbs, reported>>

\* The forEachLimit callback of one asset iteration of Compilation `c`.  Only
\* the join of the emitAssets in flight listens; an error, or the last
\* completion, ends the iteration, and then emitAssets either fails the run
\* or calls the afterEmit hook.
TaskCallback(c, err) ==
    IF join.c = c /\ ~join.called
    THEN IF err # NoErr
         THEN /\ join' = [join EXCEPT !.called = TRUE]
              /\ Report(err)
              /\ finalCallback(err, 0, L)
         ELSE IF join.left = 1
         THEN /\ join' = [join EXCEPT !.called = TRUE, !.left = 0]
              /\ Goto("afterEmit", L \o <<Ev("afterEmit", c)>>)
              /\ UNCHANGED reported
         ELSE /\ join' = [join EXCEPT !.left = @ - 1]
              /\ UNCHANGED <<running, pc, log, cbs, reported>>
    ELSE UNCHANGED <<join, running, pc, log, cbs, reported>>

\* The iteration `t` ends, calling back with `err`.
Complete(t, err) ==
    /\ tasks' = tasks \ {t}
    /\ TaskCallback(t.c, err)

\* The iteration `t`, having seen what `u` records, issues the file-system
\* call `call` and waits for it.
Continue(t, u, call) ==
    /\ tasks' = (tasks \ {t}) \cup {[u EXCEPT !.pc = call]}
    /\ fsOps' = IF t.c = compilation
                THEN [fsOps EXCEPT ![t.file] = Append(@, call)]
                ELSE fsOps
    /\ UNCHANGED <<join, running, pc, log, cbs, reported>>

\* hooks.emit called back; on success mkdirp of the output path is called.
EmitHookDone ==
    /\ pc = "emit"
    /\ \E err \in Errs("E_emit") :
         /\ Report(err)
         /\ IF err # NoErr THEN Final(err, 0, L)
            ELSE /\ Goto("mkdirp", L \o <<Ev("mkdirp", compilation)>>)
                 /\ UNCHANGED <<compVars, emitVars>>
    /\ UNCHANGED <<watchMode, nRuns, lastCall, besideCompiler>>

\* mkdirp of the output path called back: emitFiles.  forEachLimit starts the
\* iteration of every asset (fewer than 15) and each runs writeOut up to its
\* first file-system call; an asset that is skipped calls back at once.
MkdirpDone ==
    /\ pc = "mkdirp"
    /\ \E err \in Errs("E_mkdirp") :
         /\ Report(err)
         /\ IF err # NoErr THEN Final(err, 0, L)
            ELSE LET c == compilation
                     present == { f \in Files : assets[f] # NoSource }
                     kind(f) == writeOut(f, assets[f])
                     started == { f \in present : kind(f) # "skip" }
                     writing == { assets[f] :
                                    f \in { g \in present : kind(g) = "write" } }
                     sc == [ s \in Sources |->
                               IF s \in writing
                               THEN updateWithReplacementSource(
                                        sourceCache, s, Len(getContent(s)))[s]
                               ELSE sourceCache[s] ]
                 IN
                 /\ sourceCache' = sc
                 /\ assetSize' =
                        [ f \in Files |->
                            IF f \in present /\ kind(f) # "stat"
                            THEN sc[assets[f]].sizeOnlySource
                            ELSE assetSize[f] ]
                 /\ tasks' = tasks \cup
                        { [c |-> c, file |-> f, source |-> assets[f],
                           gen |-> writtenFiles[targetPath(f)],
                           pc |-> FirstFsCall(kind(f)),
                           stat |-> "none", size |-> 0,
                           read |-> "none", existingContent |-> <<>>] :
                          f \in started }
                 /\ fsOps' =
                        [ f \in Files |->
                            IF f \in started THEN <<FirstFsCall(kind(f))>>
                            ELSE <<>> ]
                 /\ join' = [c |-> c, left |-> Cardinality(started),
                             called |-> started = {}]
                 /\ IF started = {}
                    THEN Goto("afterEmit", L \o <<Ev("emitFiles", c),
                                                  Ev("afterEmit", c)>>)
                    ELSE Goto("assets", L \o <<Ev("emitFiles", c)>>)
                 /\ UNCHANGED <<compVars, immutable, disk, assets,
                                emittedAssets, comparedForEmitAssets,
                                writtenFiles, prevEmit, compareBeforeEmit,
                                files>>
    /\ UNCHANGED <<watchMode, nRuns, lastCall, besideCompiler>>

\* compilation.updateAsset(file, sizeOnlySource, {size}) from the iteration
\* `t`: it changes the Compilation the iteration belongs to.
updateAsset(t, size) ==
    IF t.c = compilation THEN [assetSize EXCEPT ![t.file] = size] ELSE assetSize

\* alreadyWritten(): the Source is recorded as written to the path at the
\* generation captured by writeOut (1 when the path had none).
alreadyWritten(t) ==
    LET p == targetPath(t.file) IN
    /\ writtenFiles' = IF t.gen = 0 THEN [writtenFiles EXCEPT ![p] = 1]
                       ELSE writtenFiles
    /\ UNCHANGED <<disk, emittedAssets>>

alreadyWrittenGeneration(t) == IF t.gen = 0 THEN 1 ELSE t.gen

\* What stat can answer for a path: an error (always for a missing path), or
\* the stats of what is there.
StatResults(p) == {"error"} \cup (IF disk[p] = Missing THEN {} ELSE {"stats"})

\* A plausible slip: the existing file is never read, the asset always written.
needsReadNever(content, size) == FALSE

\* processExistingFile reads the existing file to compare the bytes.
needsRead(content, size) == Len(content) = size

\* outputFileSystem.stat called back for the iteration `t`:
\* processExistingFile when a regular file is there, else processMissingFile.
StatDone(t) ==
    /\ t.pc = "stat"
    /\ \E res \in StatResults(targetPath(t.file)) :
         LET p == targetPath(t.file)
             exists == res = "stats" /\ IsFile(p)
             size == Len(disk[p])
             content == getContent(t.source)
             u == [t EXCEPT !.stat = IF exists THEN "file" ELSE "nofile",
                            !.size = IF exists THEN size ELSE 0]
         IN
         IF exists /\ t.file \in immutable
         THEN \* skip emitting: it is already there and immutable
              /\ sourceCache' =
                   [updateWithReplacementSource(sourceCache, t.source, size)
                      EXCEPT ![t.source].writtenTo[p] = alreadyWrittenGeneration(t)]
              /\ assetSize' = updateAsset(t, sourceCache'[t.source].sizeOnlySource)
              /\ alreadyWritten(t)
              /\ Complete(t, NoErr)
              /\ UNCHANGED <<comparedForEmitAssets, fsOps>>
         ELSE /\ sourceCache' =
                   updateWithReplacementSource(sourceCache, t.source, Len(content))
              /\ assetSize' = updateAsset(t, sourceCache'[t.source].sizeOnlySource)
              /\ UNCHANGED <<disk, emittedAssets, writtenFiles>>
              /\ IF exists /\ needsRead(content, size)
                 THEN /\ comparedForEmitAssets' =
                           IF t.c = compilation
                           THEN comparedForEmitAssets \cup {t.file}
                           ELSE comparedForEmitAssets
                      /\ Continue(t, u, "readFile")
                 ELSE /\ UNCHANGED comparedForEmitAssets
                      /\ Continue(t, u, "writeFile")
    /\ UNCHANGED <<immutable, assets, prevEmit, compareBeforeEmit, files>>
    /\ UNCHANGED <<watchMode, nRuns, lastCall, compVars, besideCompiler>>

\* What readFile can answer: an error, or the bytes of the regular file there.
ReadResults(p) == {"error"} \cup (IF IsFile(p) THEN {"content"} ELSE {})

\* outputFileSystem.readFile called back for the iteration `t`: write unless
\* the bytes on disk are the content.
ReadDone(t) ==
    /\ t.pc = "readFile"
    /\ \E res \in ReadResults(targetPath(t.file)) :
         LET p == targetPath(t.file)
             u == [t EXCEPT !.read = res,
                            !.existingContent = IF res = "error" THEN <<>>
                                                ELSE disk[p]]
         IN
         IF res = "error" \/ ~BufferEquals(getContent(t.source), disk[p])
         THEN /\ Continue(t, u, "writeFile")
              /\ UNCHANGED <<disk, emittedAssets, writtenFiles, sourceCache>>
         ELSE /\ sourceCache' = [sourceCache EXCEPT
                     ![t.source].writtenTo[p] = alreadyWrittenGeneration(t)]
              /\ alreadyWritten(t)
              /\ Complete(t, NoErr)
              /\ UNCHANGED fsOps
    /\ UNCHANGED <<immutable, assets, comparedForEmitAssets, assetSize,
                   prevEmit, compareBeforeEmit, files>>
    /\ UNCHANGED <<watchMode, nRuns, lastCall, compVars, besideCompiler>>

\* What writeFile can answer: an error (always when the path is a directory),
\* or success.
WriteResults(p) == {"error"} \cup (IF disk[p] = Directory THEN {} ELSE {"ok"})

\* doWrite marks the asset as emitted once writeFile succeeded.
emittedAfterWrite(set, file) == set \cup {file}

\* outputFileSystem.writeFile called back for the iteration `t`: on success
\* the asset is emitted, the generation of the path advances from the one
\* writeOut captured, and the assetEmitted hook is called.
WriteDone(t) ==
    /\ t.pc = "writeFile"
    /\ \E res \in WriteResults(targetPath(t.file)) :
         LET p == targetPath(t.file)
             newGeneration == IF t.gen = 0 THEN 1 ELSE t.gen + 1
         IN
         IF res = "error"
         THEN /\ Complete(t, "E_writeFile")
              /\ UNCHANGED <<disk, emittedAssets, writtenFiles, sourceCache>>
         ELSE /\ disk' = [disk EXCEPT ![p] = getContent(t.source)]
              /\ emittedAssets' = IF t.c = compilation
                                   THEN emittedAfterWrite(emittedAssets, t.file)
                                   ELSE emittedAssets
              /\ sourceCache' = [sourceCache EXCEPT
                                   ![t.source].writtenTo[p] = newGeneration]
              /\ writtenFiles' = [writtenFiles EXCEPT ![p] = newGeneration]
              /\ tasks' = (tasks \ {t}) \cup {[t EXCEPT !.pc = "assetEmitted"]}
              /\ UNCHANGED <<join, running, pc, log, cbs, reported>>
    /\ UNCHANGED <<immutable, assets, comparedForEmitAssets, fsOps, assetSize,
                   prevEmit, compareBeforeEmit, files>>
    /\ UNCHANGED <<watchMode, nRuns, lastCall, compVars, besideCompiler>>

\* hooks.assetEmitted called back for the iteration `t`, which ends.
AssetEmittedDone(t) ==
    /\ t.pc = "assetEmitted"
    /\ \E err \in Errs("E_assetEmitted") : Complete(t, err)
    /\ UNCHANGED <<immutable, disk, assets, emittedAssets, comparedForEmitAssets,
                   writtenFiles, sourceCache, fsOps, assetSize, prevEmit,
                   compareBeforeEmit, files>>
    /\ UNCHANGED <<watchMode, nRuns, lastCall, compVars, besideCompiler>>

\* compilation.hooks.needAdditionalPass can ask for one more compile() while
\* the bound on compile() calls allows one.
AdditionalPassAnswers == IF nCompile < MaxBuilds THEN BOOLEAN ELSE {FALSE}

\* hooks.afterEmit called back, so emitAssets calls back: after an error the
\* run fails; with an additional pass needed the done hook is called; else
\* emitRecords.
AfterEmitDone ==
    /\ pc = "afterEmit"
    /\ \E err \in Errs("E_afterEmit"), needAdditionalPass \in AdditionalPassAnswers :
         /\ Report(err)
         /\ IF err # NoErr THEN finalCallback(err, 0, L)
            ELSE IF needAdditionalPass
            THEN Goto("doneAdditionalPass",
                      L \o <<Ev("needAdditionalPass=true", compilation),
                             Ev("done", Stats(compilation))>>)
            ELSE Goto("emitRecords",
                      L \o <<Ev("needAdditionalPass", compilation),
                             Ev("emitRecords", 0)>>)
    /\ UNCHANGED <<watchMode, nRuns, lastCall, compVars, emitVars, besideCompiler>>

\* hooks.done called back before an additional pass; on success the
\* additionalPass hook is called.
DoneAdditionalPassDone ==
    /\ pc = "doneAdditionalPass"
    /\ \E err \in Errs("E_done") :
         /\ Report(err)
         /\ IF err # NoErr THEN finalCallback(err, 0, L)
            ELSE Goto("additionalPass", L \o <<Ev("additionalPass", 0)>>)
    /\ UNCHANGED <<watchMode, nRuns, lastCall, compVars, emitVars, besideCompiler>>

\* hooks.additionalPass called back; on success compile() is called again.
AdditionalPassDone ==
    /\ pc = "additionalPass"
    /\ \E err \in Errs("E_additionalPass") :
         /\ Report(err)
         /\ IF err # NoErr THEN Final(err, 0, L)
            ELSE /\ compile(L)
                 /\ UNCHANGED emitVars
    /\ UNCHANGED <<watchMode, nRuns, lastCall, besideCompiler>>

\* The ways emitRecords ends: no recordsOutputPath, a mkdirp error, a write
\* error, records written.
EmitRecordsOutcomes == {"noPath", "mkdirpError", "writeError", "written"}

emitRecords(outcome) ==
    CASE outcome = "mkdirpError" -> "E_emitRecordsMkdirp"
      [] outcome = "writeError" -> "E_emitRecords"
      [] OTHER -> NoErr

\* emitRecords called back; on success the done hook is called.
EmitRecordsDone ==
    /\ pc = "emitRecords"
    /\ \E outcome \in EmitRecordsOutcomes :
         LET err == emitRecords(outcome) IN
         /\ Report(err)
         /\ IF err # NoErr THEN finalCallback(err, 0, L)
            ELSE Goto("done", L \o <<Ev("done", Stats(compilation))>>)
    /\ UNCHANGED <<watchMode, nRuns, lastCall, compVars, emitVars, besideCompiler>>

\* hooks.done called back at the end of the run
DoneDone ==
    /\ pc = "done"
    /\ \E err \in Errs("E_done") :
         /\ Report(err)
         /\ IF err # NoErr THEN finalCallback(err, 0, L)
            ELSE finalCallback(NoErr, Stats(compilation), L)
    /\ UNCHANGED <<watchMode, nRuns, lastCall, compVars, emitVars, besideCompiler>>


(***************************************************************************)
(* NormalModuleFactory: the "resolve" tap                                  *)
(***************************************************************************)

\* Bound on the number of results ruleSet.exec returns for a request.
MaxRules == 3

\* needCalls marks a join that has reported an error by times = NaN.
NaN == -1

\* The most sub-tasks a join is made for: the resolve tap makes joins of 2
\* and of 3.
MaxTimes == 4

Bang == "!"

\* ---- how a request is written ------------------------------------------
\* A request is written as: an optional match-resource part `m!=!`, one of
\* the prefixes (none, `!`, `!!`, `-!`), the inline loaders each followed by
\* `!`, and the resource.  Loader and resource names are strings.
MatchResources == { <<>>, <<"m">> }
Prefixes == { <<>>, <<"!">>, <<"!", "!">>, <<"-", "!">> }
InlineLoaderLists ==
    { <<>>, << <<"a">> >>, << <<"a">>, <<"b">> >>, << <<"b">>, <<"a">> >>,
      << <<"a", "?", "o">> >> }
Resources == { <<"f">>, <<"?", "q">>, <<>> }

RECURSIVE JoinBang(_)
JoinBang(names) ==
    IF names = <<>> THEN <<>>
    ELSE Head(names) \o <<Bang>> \o JoinBang(Tail(names))

WriteRequest(w) ==
    (IF w.matchResource = <<>> THEN <<>>
     ELSE w.matchResource \o <<"!", "=", "!">>)
    \o w.prefix \o JoinBang(w.loaders) \o w.resource

Writings ==
    [matchResource : MatchResources, prefix : Prefixes,
     loaders : InlineLoaderLists, resource : Resources]

\* ---- the string functions the tap uses ----------------------------------
\* String.prototype.substr(from) / slice(from), counting from 0
SliceFrom(str, from) == SubSeq(str, from + 1, Len(str))

\* MATCH_RESOURCE_REGEX = /^([^!]+)!=!/ : the length of match[1], or 0 when
\* the request does not match.
MatchResourceLen(str) ==
    LET i == IndexOf(str, Bang) IN
    IF i > 1 /\ i + 2 <= Len(str) /\ str[i + 1] = "=" /\ str[i + 2] = Bang
    THEN i - 1
    ELSE 0

\* String.prototype.split(/!+/): the pieces between the runs of `!`
RECURSIVE SplitBangs(_, _)
SplitBangs(str, piece) ==
    IF str = <<>> THEN <<piece>>
    ELSE IF Head(str) = Bang
    THEN IF Len(str) > 1 /\ str[2] = Bang
         THEN SplitBangs(Tail(str), piece)
         ELSE <<piece>> \o SplitBangs(Tail(str), <<>>)
    ELSE SplitBangs(Tail(str), Append(piece, Head(str)))

\* identToLoaderRequest: `loader?options` (no options: the empty string
\* stands for undefined, which loaderToIdent treats alike)
identToLoaderRequest(str) ==
    LET idx == IndexOf(str, "?") IN
    IF idx > 0
    THEN [loader |-> SubSeq(str, 1, idx - 1), options |-> SliceFrom(str, idx)]
    ELSE [loader |-> str, options |-> <<>>]

loaderToIdent(data) ==
    IF data.options = <<>> THEN data.loader
    ELSE data.loader \o <<"?">> \o data.options

RECURSIVE stringifyLoadersAndResource(_, _)
stringifyLoadersAndResource(loaders, resource) ==
    IF loaders = <<>> THEN resource
    ELSE loaderToIdent(Head(loaders)) \o <<Bang>>
         \o stringifyLoadersAndResource(Tail(loaders), resource)

\* ---- the prefix flags ----------------------------------------------------
CharAt(str, i) == IF i + 1 <= Len(str) THEN str[i + 1] ELSE ""

requestWithoutMatchResource(req) ==
    IF MatchResourceLen(req) > 0
    THEN SliceFrom(req, MatchResourceLen(req) + 3)
    ELSE req

\* The flags are taken from the request without its match-resource part, `r`.
\* startsWith "-!"
noPreAutoLoaders(r) == CharAt(r, 0) = "-" /\ CharAt(r, 1) = Bang

\* A plausible slip: only a leading `!` counts, `-!` does not.
noAutoLoadersBangOnly(r) == CharAt(r, 0) = Bang

\* startsWith "!"
noAutoLoaders(r) == noPreAutoLoaders(r) \/ CharAt(r, 0) = Bang

\* startsWith "!!"
noPrePostAutoLoaders(r) == CharAt(r, 0) = Bang /\ CharAt(r, 1) = Bang

rawElements(r) ==
    SplitBangs(SliceFrom(r, IF noPreAutoLoaders(r) \/ noPrePostAutoLoaders(r)
                            THEN 2
                            ELSE IF noAutoLoaders(r) THEN 1 ELSE 0),
               <<>>)

\* What the tap takes from the request before it resolves anything.
ParseRequest(req) ==
    LET r == requestWithoutMatchResource(req)
        raw == rawElements(r)
    IN [matchResource |-> SubSeq(req, 1, MatchResourceLen(req)),
        noPreAutoLoaders |-> noPreAutoLoaders(r),
        noAutoLoaders |-> noAutoLoaders(r),
        noPrePostAutoLoaders |-> noPrePostAutoLoaders(r),
        unresolvedResource |-> raw[Len(raw)],
        elements |-> [ i \in 1..(Len(raw) - 1) |-> identToLoaderRequest(raw[i]) ]]


\* ---- the resolvers and the rule set (external) ---------------------------
\* The loader resolver and the normal resolver answer with an absolute path.
ResolvedPath(name) == <<"/">> \o name

\* resolveRequestArray, when every item resolves: each item becomes its
\* resolved loader and keeps its own options.
resolveRequestArray(array) ==
    [ i \in 1..Len(array) |->
        [loader |-> identToLoaderRequest(ResolvedPath(array[i].loader)).loader,
         options |-> IF array[i].options = <<>>
                     THEN identToLoaderRequest(ResolvedPath(array[i].loader)).options
                     ELSE array[i].options] ]

Loader(name) == [loader |-> name, options |-> <<>>]

\* The loader effects ruleSet.exec can return: normal, post and pre loaders.
RuleEffects ==
    { [type |-> "use", value |-> Loader(<<"n">>)],
      [type |-> "use", value |-> Loader(<<"k">>)],
      [type |-> "use-post", value |-> Loader(<<"p">>)],
      [type |-> "use-pre", value |-> Loader(<<"r">>)] }

RuleResults ==
    { rs \in UNION { [1..n -> RuleEffects] : n \in 0..MaxRules } :
        \A i, j \in 1..Len(rs) : i # j => rs[i] # rs[j] }

RECURSIVE SelectValues(_, _)
\* the values of the results of one type, in the order of the results
SelectValues(results, type) ==
    IF results = <<>> THEN <<>>
    ELSE (IF Head(results).type = type THEN <<Head(results).value>> ELSE <<>>)
         \o SelectValues(Tail(results), type)

\* useLoaders: the normal loaders of the rule results, unless suppressed
\* (`q` is the parsed request)
useLoaders(q, results) ==
    IF ~q.noAutoLoaders /\ ~q.noPrePostAutoLoaders
    THEN SelectValues(results, "use")
    ELSE <<>>

\* A plausible slip: `!!` does not suppress the post loaders.
useLoadersPostAlways(q, results) == SelectValues(results, "use-post")

\* useLoadersPost: the post loaders of the rule results, unless suppressed
useLoadersPost(q, results) ==
    IF ~q.noPrePostAutoLoaders
    THEN SelectValues(results, "use-post")
    ELSE <<>>

\* A plausible slip: the pre loaders are suppressed by any `!` prefix.
useLoadersPreNoAuto(q, results) ==
    IF ~q.noAutoLoaders /\ ~q.noPrePostAutoLoaders
    THEN SelectValues(results, "use-pre")
    ELSE <<>>

\* useLoadersPre: the pre loaders of the rule results, unless suppressed
useLoadersPre(q, results) ==
    IF ~q.noPreAutoLoaders /\ ~q.noPrePostAutoLoaders
    THEN SelectValues(results, "use-pre")
    ELSE <<>>

\* A plausible slip: the join goes on counting after an error.
needCallsKeepsCounting(times, err) ==
    LET t == times - 1 IN
    IF t = 0 THEN [times |-> t, call |-> TRUE]
    ELSE IF err # NoErr /\ t > 0 THEN [times |-> t, call |-> TRUE]
    ELSE [times |-> t, call |-> FALSE]

\* needCalls(times, callback): one call of the function it returns, with
\* `err`; `call` tells whether callback is called (with `err`).
needCalls(times, err) ==
    LET t == IF times = NaN THEN NaN ELSE times - 1 IN
    IF t = 0 THEN [times |-> t, call |-> TRUE]
    ELSE IF err # NoErr /\ t # NaN /\ t > 0 THEN [times |-> NaN, call |-> TRUE]
    ELSE [times |-> t, call |-> FALSE]

\* The most entries of an array of externals
MaxExternals == 3

\* What an entry of the array gives for the request: nothing (it does not
\* match, or its value is false), an external module, or an error; and it
\* calls back before it returns, or later.
ExternalAnswers == { "nothing", "module", "error" }
ExternalEntries == [ async : BOOLEAN, answer : ExternalAnswers ]
ExternalsArrays ==
    UNION { [1..n -> ExternalEntries] : n \in 0..MaxExternals }

\* handleExternals is not called yet.
NoExternalsCall ==
    [started |-> FALSE, i |-> 0, asyncFlag |-> <<>>, consulted |-> <<>>,
     pending |-> {}, callbacks |-> <<>>]

InitExternalsIdle == externals = <<>> /\ externalsCall = NoExternalsCall

\* A plausible slip: an entry that gives nothing always ends the turn of the
\* loop, also when it answers after the loop has ended.
handleExternalsAndCallbackNeverResumes(flag, answer) ==
    IF answer = "error"
    THEN [callback |-> "error", asyncFlag |-> flag, next |-> FALSE]
    ELSE IF answer = "nothing"
    THEN [callback |-> "none", asyncFlag |-> FALSE, next |-> FALSE]
    ELSE [callback |-> "module", asyncFlag |-> flag, next |-> FALSE]

\* handleExternalsAndCallback(err, module) of a next() whose asyncFlag is
\* `flag`: what the factorize callback is called with, if it is, the flag
\* afterwards, and whether next() is called.
handleExternalsAndCallback(flag, answer) ==
    IF answer = "error"
    THEN [callback |-> "error", asyncFlag |-> flag, next |-> FALSE]
    ELSE IF answer = "nothing"
    THEN IF flag
         THEN [callback |-> "none", asyncFlag |-> FALSE, next |-> FALSE]
         ELSE [callback |-> "none", asyncFlag |-> flag, next |-> TRUE]
    ELSE [callback |-> "module", asyncFlag |-> flag, next |-> FALSE]

RECURSIVE nextExternals(_)
RECURSIVE doWhile(_, _)
RECURSIVE entryCalledBack(_, _, _)

\* The entry `entry`, consulted by the invocation `n` of next(), calls
\* handleExternalsAndCallback.
entryCalledBack(c, n, entry) ==
    LET h == handleExternalsAndCallback(c.asyncFlag[n], externals[entry].answer)
        called == [c EXCEPT
                     !.asyncFlag[n] = h.asyncFlag,
                     !.callbacks = IF h.callback = "none" THEN @
                                   ELSE Append(@, [kind |-> h.callback,
                                                   entry |-> entry])]
    IN IF h.next THEN nextExternals(called) ELSE called

\* The do-while loop of the invocation `n` of next(): entries are consulted
\* for as long as each calls back, with nothing, before it returns.
doWhile(c, n) ==
    LET begun == [c EXCEPT !.asyncFlag[n] = TRUE] IN
    IF begun.i >= Len(externals)
    THEN [begun EXCEPT !.callbacks = Append(@, [kind |-> "nothing", entry |-> 0])]
    ELSE LET entry == begun.i + 1
             asked == [begun EXCEPT !.i = entry,
                                    !.consulted = Append(@, entry)]
             after == IF externals[entry].async
                      THEN [asked EXCEPT
                              !.pending = @ \cup {[entry |-> entry,
                                                   invocation |-> n]}]
                      ELSE entryCalledBack(asked, n, entry)
         IN IF ~after.asyncFlag[n] THEN doWhile(after, n)
            ELSE [after EXCEPT !.asyncFlag[n] = FALSE]

\* next() of handleExternals: a new asyncFlag, then the loop
nextExternals(c) ==
    doWhile([c EXCEPT !.asyncFlag = Append(@, FALSE)], Len(c.asyncFlag) + 1)

\* The factorize tap: handleExternals(this.externals, callback), externals
\* being an array.
FactorizeExternals ==
    /\ ~externalsCall.started
    /\ externalsCall' = nextExternals([externalsCall EXCEPT !.started = TRUE])
    /\ UNCHANGED <<externals, besideExternals>>

\* An entry that did not answer before it returned calls back.
ExternalCallsBack(p) ==
    /\ externalsCall' =
         entryCalledBack([externalsCall EXCEPT !.pending = @ \ {p}],
                         p.invocation, p.entry)
    /\ UNCHANGED <<externals, besideExternals>>

\* The most statements of a parsed module
MaxStatements == 3

\* The requests imported from, and the names import statements bind
ImportSources == { "./a", "./b" }
BindingNames == { "x", "y" }

\* An import statement binds no name (side effect only), one or two.
ImportStatements ==
    [ kind : {"import"}, source : ImportSources,
      names : { <<>>, <<"x">>, <<"y">>, <<"x", "y">> } ]

\* A use of a name in an expression
ExpressionStatements ==
    [ kind : {"expression"}, source : {"none"}, names : { <<"x">>, <<"y">> } ]

Range(seq) == { seq[i] : i \in DOMAIN seq }

\* The import statements of a module, by place
ImportsOf(p) == { i \in DOMAIN p : p[i].kind = "import" }

\* The modules parsed: a name is bound by one import statement at most.
Programs ==
    { p \in UNION { [1..n -> ImportStatements \cup ExpressionStatements] :
                     n \in 1..MaxStatements } :
        \A i, j \in ImportsOf(p) :
           i # j => Range(p[i].names) \cap Range(p[j].names) = {} }

\* A variable without the harmony specifier tag
NoTag == [source |-> "none", sourceOrder |-> 0]

\* A plausible slip: the counter is set, never read.
nextImportOrderRestarts(last) == 1

\* (parser.state.lastHarmonyImportOrder || 0) + 1, undefined being 0 here
nextImportOrder(last) == (IF last = 0 THEN 0 ELSE last) + 1

\* The state of a parser that begins a module
InitParserState ==
    /\ walk = [pass |-> "prewalk", statement |-> 1, specifier |-> 0]
    /\ lastHarmonyImportOrder = 0
    /\ tagData = [n \in BindingNames |-> NoTag]
    /\ moduleDependencies = <<>>
    /\ factorizeOrder = <<>>

InitParseIdle == program = <<>> /\ InitParserState

\* The statement the prewalk is at, skipping what is no import
PrewalkAt ==
    IF \E i \in ImportsOf(program) : i >= walk.statement
    THEN CHOOSE i \in ImportsOf(program) :
           /\ i >= walk.statement
           /\ \A k \in ImportsOf(program) : k >= walk.statement => i <= k
    ELSE 0

\* hooks.import of the next import statement: the counter advances and the
\* side-effect dependency gets its value.
ImportHook ==
    /\ walk.pass = "prewalk" /\ walk.specifier = 0
    /\ PrewalkAt # 0
    /\ lastHarmonyImportOrder' = nextImportOrder(lastHarmonyImportOrder)
    /\ moduleDependencies' =
         Append(moduleDependencies,
                [kind |-> "HarmonyImportSideEffectDependency",
                 source |-> program[PrewalkAt].source,
                 sourceOrder |-> lastHarmonyImportOrder',
                 name |-> "none"])
    /\ walk' = IF program[PrewalkAt].names = <<>>
               THEN [walk EXCEPT !.statement = PrewalkAt + 1]
               ELSE [walk EXCEPT !.statement = PrewalkAt, !.specifier = 1]
    /\ UNCHANGED <<program, tagData, factorizeOrder, besideParse>>

\* hooks.importSpecifier of the next specifier of the statement: the name
\* is tagged with the source and the counter as it is.
ImportSpecifierHook ==
    /\ walk.pass = "prewalk" /\ walk.specifier > 0
    /\ LET statement == program[walk.statement]
           name == statement.names[walk.specifier]
       IN
       /\ tagData' = [tagData EXCEPT
                        ![name] = [source |-> statement.source,
                                   sourceOrder |-> lastHarmonyImportOrder]]
       /\ walk' = IF walk.specifier = Len(statement.names)
                  THEN [walk EXCEPT !.statement = @ + 1, !.specifier = 0]
                  ELSE [walk EXCEPT !.specifier = @ + 1]
    /\ UNCHANGED <<program, lastHarmonyImportOrder, moduleDependencies,
                   factorizeOrder, besideParse>>

\* Every import statement is prewalked: the parser walks the statements.
ImportsDone ==
    /\ walk.pass = "prewalk" /\ walk.specifier = 0
    /\ PrewalkAt = 0
    /\ walk' = [pass |-> "walk", statement |-> 1, specifier |-> 0]
    /\ UNCHANGED <<program, lastHarmonyImportOrder, tagData,
                   moduleDependencies, factorizeOrder, besideParse>>

\* The walk of the next statement; hooks.expression.for(harmonySpecifierTag)
\* is called for an expression that is a tagged name, and adds the specifier
\* dependency with the settings of the tag.
ExpressionHook ==
    /\ walk.pass = "walk"
    /\ walk.statement <= Len(program)
    /\ LET statement == program[walk.statement]
           settings == tagData[statement.names[1]]
       IN
       moduleDependencies' =
          IF statement.kind = "expression" /\ settings # NoTag
          THEN Append(moduleDependencies,
                      [kind |-> "HarmonyImportSpecifierDependency",
                       source |-> settings.source,
                       sourceOrder |-> settings.sourceOrder,
                       name |-> statement.names[1]])
          ELSE moduleDependencies
    /\ walk' = [walk EXCEPT !.statement = @ + 1]
    /\ UNCHANGED <<program, lastHarmonyImportOrder, tagData, factorizeOrder,
                   besideParse>>

\* After the parse the dependencies are factorized, in whatever order the
\* resolver answers.
FactorizeDependency(d) ==
    /\ walk.pass = "walk" /\ walk.statement > Len(program)
    /\ d \notin Range(factorizeOrder)
    /\ factorizeOrder' = Append(factorizeOrder, d)
    /\ UNCHANGED <<program, walk, lastHarmonyImportOrder, tagData,
                   moduleDependencies, besideParse>>

\* The most calls of getParser and getGenerator on one factory
MaxGets == 3

\* parserCache and generatorCache
InstanceKinds == { "parser", "generator" }

\* The module types asked for
ModuleTypes == { "javascript/auto", "json" }

\* The options objects the callers hold, by identity, and EMPTY_OBJECT
EMPTY_OBJECT == "EMPTY_OBJECT"
OptionsObjects == { "options1", "options2" }

\* What a caller passes as options: one of its objects, or nothing
OptionsArguments == OptionsObjects \cup { "undefined" }

\* The keys of the two caches: the type, then the options object
CacheKeys == InstanceKinds \X ModuleTypes \X (OptionsObjects \cup {EMPTY_OBJECT})

\* cache.get gives undefined for an options object it has not
NoInstance == 0

\* `parserOptions = EMPTY_OBJECT`: the default of the parameter
defaultOptions(options) ==
    IF options = "undefined" THEN EMPTY_OBJECT ELSE options

\* A plausible slip: the instance is made and returned, and not kept.
cacheSetNothing(cache, key, instance) == cache

\* cache.set(parserOptions, parser)
cacheSet(cache, key, instance) == [cache EXCEPT ![key] = instance]

\* The caches of a new factory (part_006 constructor): both empty.
InitCaches ==
    /\ instanceCache = [k \in CacheKeys |-> NoInstance]
    /\ hookRuns = [k \in CacheKeys |-> 0]
    /\ nInstances = 0

InitGetIdle == InitCaches /\ gets = <<>>

\* getParser / getGenerator(type, options): the instance of the cache, else
\* createParser / createGenerator: the hook of the type gives an instance,
\* which is kept, or nothing, and then the call throws before cache.set.
get(kind, type, options, hookGives) ==
    LET key == <<kind, type, defaultOptions(options)>>
        cached == instanceCache[key]
        call == [kind |-> kind, type |-> type, options |-> options]
    IN
    IF cached # NoInstance
    THEN /\ gets' = Append(gets, [call |-> call, threw |-> FALSE,
                                   result |-> cached])
         /\ UNCHANGED <<instanceCache, hookRuns, nInstances>>
    ELSE /\ hookRuns' = [hookRuns EXCEPT ![key] = @ + 1]
         /\ IF hookGives
            THEN /\ nInstances' = nInstances + 1
                 /\ instanceCache' = cacheSet(instanceCache, key, nInstances')
                 /\ gets' = Append(gets, [call |-> call, threw |-> FALSE,
                                           result |-> nInstances'])
            ELSE /\ gets' = Append(gets, [call |-> call, threw |-> TRUE,
                                           result |-> NoInstance])
                 /\ UNCHANGED <<instanceCache, nInstances>>

GetParser ==
    /\ Len(gets) < MaxGets
    /\ \E type \in ModuleTypes, options \in OptionsArguments,
          hookGives \in BOOLEAN :
         get("parser", type, options, hookGives)
    /\ UNCHANGED besideGet

GetGenerator ==
    /\ Len(gets) < MaxGets
    /\ \E type \in ModuleTypes, options \in OptionsArguments,
          hookGives \in BOOLEAN :
         get("generator", type, options, hookGives)
    /\ UNCHANGED besideGet

\* The sub-tasks of a join made for `n` of them
SubTasks(n) == 1..n

\* What a sub-task can call back with: no error, or its own error.
SubTaskErrors(task) == { NoErr, <<"E_subTask", task>> }

\* The sub-tasks that called back
Completed == { completions[i].task : i \in DOMAIN completions }

\* One sub-task of the join calls back, in whatever order: it calls the
\* function needCalls returned, which calls the continuation or not.
SubTaskDone ==
    /\ \E task \in SubTasks(needed) \ Completed :
         \E err \in SubTaskErrors(task) :
            LET j == needCalls(timesLeft, err) IN
            /\ timesLeft' = j.times
            /\ completions' = Append(completions, [task |-> task, err |-> err])
            /\ continuations' = IF j.call THEN Append(continuations, err)
                                 ELSE continuations
    /\ UNCHANGED <<needed, besideJoin>>

\* A plausible slip: the match resource does not change the order.
allLoadersInlineFirst(n) ==
    n.postLoaders \o n.loaders \o n.normalLoaders \o n.preLoaders

\* allLoaders of the created module
allLoaders(n) ==
    n.postLoaders
    \o (IF n.q.matchResource = <<>>
        THEN n.loaders \o n.normalLoaders
        ELSE n.normalLoaders \o n.loaders)
    \o n.preLoaders

\* ---- the tap, one action per callback ------------------------------------
\* The calls the tap waits for are delivered one by one, in any order; a
\* call that answers synchronously is delivered like the others.

NoUse == [post |-> <<>>, normal |-> <<>>, pre |-> <<>>]

IdleTap ==
    [stage |-> "start", q |-> ParseRequest(<<>>), use |-> NoUse,
     pending |-> {}, times |-> 0, loaders |-> <<>>,
     resource |-> <<>>, ignored |-> FALSE, postLoaders |-> <<>>,
     normalLoaders |-> <<>>, preLoaders |-> <<>>]

\* The resolve tap is called with the request: the inline loaders and the
\* resource are handed to their resolvers, joined by needCalls(2).
ResolveTap ==
    /\ nf.stage = "start"
    /\ factorized.pc = "resolve"
    /\ nf' = [nf EXCEPT !.stage = "inline", !.q = ParseRequest(request),
                        !.times = 2, !.pending = {"loaders", "resource"}]
    /\ UNCHANGED <<request, written, matched, created, registered, factorized>>
    /\ UNCHANGED besideResolve

\* The continuation of needCalls(2): after an error the tap calls back with
\* it; an ignored resource gives a RawModule; otherwise the rule results
\* are sorted into post, normal and pre loaders, which are handed to the
\* loader resolver, joined by needCalls(3).
AfterInline(n, err) ==
    IF err # NoErr
    THEN /\ nf' = n
         /\ created' = Append(created, [status |-> "error", err |-> err,
                                        loaders |-> <<>>, request |-> <<>>])
    ELSE IF n.ignored
    THEN /\ nf' = n
         /\ created' = Append(created, [status |-> "ignored", err |-> NoErr,
                                        loaders |-> <<>>, request |-> <<>>])
    ELSE /\ nf' = [n EXCEPT !.stage = "rules", !.times = 3,
                            !.use = [post |-> useLoadersPost(n.q, matched),
                                     normal |-> useLoaders(n.q, matched),
                                     pre |-> useLoadersPre(n.q, matched)],
                            !.pending = @ \cup {"post", "normal", "pre"}]
         /\ UNCHANGED created

\* resolveRequestArray of the inline loaders called back.
LoadersResolved ==
    /\ "loaders" \in nf.pending
    /\ \E ok \in (IF nf.q.elements = <<>> THEN {TRUE} ELSE BOOLEAN) :
         LET err == IF ok THEN NoErr ELSE "E_resolveLoader"
             j == needCalls(nf.times, err)
             n == [nf EXCEPT !.pending = @ \ {"loaders"}, !.times = j.times,
                             !.loaders = IF ok
                                         THEN resolveRequestArray(nf.q.elements)
                                         ELSE @]
         IN IF j.call THEN AfterInline(n, err)
            ELSE nf' = n /\ UNCHANGED created
    /\ UNCHANGED <<request, written, matched, registered, factorized>>
    /\ UNCHANGED besideResolve

\* What the resource resolution answers: the literal itself when it is
\* empty or starts with `?` (no resolver call), else a path, false (the
\* request is ignored) or an error.
ResourceAnswers(q) ==
    IF q.unresolvedResource = <<>> \/ CharAt(q.unresolvedResource, 0) = "?"
    THEN {"literal"}
    ELSE {"path", "ignored", "error"}

\* The resource is known: normalResolver.resolve called back, or the literal
\* was taken.
ResourceResolved ==
    /\ "resource" \in nf.pending
    /\ \E answer \in ResourceAnswers(nf.q) :
         LET err == IF answer = "error" THEN "E_resolveResource" ELSE NoErr
             j == needCalls(nf.times, err)
             n == [nf EXCEPT !.pending = @ \ {"resource"}, !.times = j.times,
                             !.ignored = (answer = "ignored"),
                             !.resource =
                                 CASE answer = "literal" -> nf.q.unresolvedResource
                                   [] answer = "path" ->
                                        ResolvedPath(nf.q.unresolvedResource)
                                   [] OTHER -> @]
         IN IF j.call THEN AfterInline(n, err)
            ELSE nf' = n /\ UNCHANGED created
    /\ UNCHANGED <<request, written, matched, registered, factorized>>
    /\ UNCHANGED besideResolve

\* A plausible slip: only the parser is looked up.
unregisteredParserOnly(r) ==
    IF ~r.parser THEN "No parser registered for" ELSE NoErr

\* this.getParser(type, ...), then this.getGenerator(type, ...): what
\* createParser or createGenerator throws when the hook of the type gives
\* nothing.
unregistered(r) ==
    IF ~r.parser THEN "No parser registered for"
    ELSE IF ~r.generator THEN "No generator registered for"
    ELSE NoErr

\* The continuation of needCalls(3): the tap calls back, after an error with
\* it, else having filled createData; getParser or getGenerator throws out
\* of it, and then the tap never calls back.
AfterRules(n, err) ==
    /\ nf' = n
    /\ created' =
         IF err # NoErr
         THEN Append(created, [status |-> "error", err |-> err,
                               loaders |-> <<>>, request |-> <<>>])
         ELSE IF unregistered(registered) # NoErr
         THEN Append(created, [status |-> "thrown",
                               err |-> unregistered(registered),
                               loaders |-> <<>>, request |-> <<>>])
         ELSE Append(created,
                     [status |-> "created", err |-> NoErr,
                      loaders |-> allLoaders(n),
                      request |-> stringifyLoadersAndResource(
                                      allLoaders(n), n.resource)])

UseList(kind) == nf.use[kind]

\* resolveRequestArray of the post, normal or pre loaders called back.
UseResolved(kind) ==
    /\ kind \in nf.pending
    /\ \E ok \in (IF UseList(kind) = <<>> THEN {TRUE} ELSE BOOLEAN) :
         LET err == IF ok THEN NoErr ELSE "E_resolveLoader"
             j == needCalls(nf.times, err)
             result == IF ok THEN resolveRequestArray(UseList(kind)) ELSE <<>>
             n == [nf EXCEPT !.pending = @ \ {kind}, !.times = j.times,
                             !.postLoaders = IF kind = "post" THEN result ELSE @,
                             !.normalLoaders = IF kind = "normal" THEN result ELSE @,
                             !.preLoaders = IF kind = "pre" THEN result ELSE @]
         IN IF j.call THEN AfterRules(n, err)
            ELSE nf' = n /\ UNCHANGED created
    /\ UNCHANGED <<request, written, matched, registered, factorized>>
    /\ UNCHANGED besideResolve

(***************************************************************************)
(* NormalModuleFactory.resolveRequestArray                                 *)
(***************************************************************************)

\* Bound on the length of the array of loader items.
MaxItems == 2

\* Loader names: a bare name, one that ends in `-loader`, one with a `/`.
\* (`-loader` is written as one piece of the string.)
LoaderSuffix == <<"-loader">>
LoaderNames == { <<"a">>, <<"b">>, <<"a">> \o LoaderSuffix, <<"/", "a">> }
LoaderItems ==
    { Loader(name) : name \in LoaderNames }
    \cup { [loader |-> <<"b">>, options |-> <<"o">>] }
LoaderArrays == UNION { [1..n -> LoaderItems] : n \in 0..MaxItems }

\* What the resolver can be asked by resolveRequestArray.
LoaderRequests == LoaderNames \cup { name \o LoaderSuffix : name \in LoaderNames }

\* /^[^/]*$/.test(loader)
HasNoSlash(name) == \A i \in 1..Len(name) : name[i] # "/"

\* /-loader$/.test(loader)
EndsInLoader(name) == name # <<>> /\ name[Len(name)] = "-loader"

\* A plausible slip: the suffix is not looked at, `x-loader-loader` is tried.
retriesIgnoringSuffix(name) == HasNoSlash(name)

\* A failed resolution is retried with `-loader` appended.
retries(name) == HasNoSlash(name) /\ ~EndsInLoader(name)

NoError == [item |-> 0, request |-> <<>>, rewritten |-> FALSE]

\* The error the resolver gave for item `i`; `rewritten` tells whether the
\* guidance text was appended to its message.
ResolveError(i, rewritten) ==
    [item |-> i, request |-> rraArray[i].loader, rewritten |-> rewritten]

\* asyncLib.map: the callback of an iteration.  The first error calls the
\* final callback; so does the last success, with the results in the order
\* of the array.
MapCallback(items, err) ==
    IF rraDone.called THEN UNCHANGED rraDone
    ELSE IF err # NoError
    THEN rraDone' = [called |-> TRUE, err |-> err, results |-> <<>>]
    ELSE IF \A i \in DOMAIN items : items[i] = "ok"
    THEN rraDone' = [called |-> TRUE, err |-> NoError,
                     results |-> resolveRequestArray(rraArray)]
    ELSE UNCHANGED rraDone

\* resolveRequestArray(contextInfo, context, array, resolver, ..., callback)
RraCall ==
    /\ ~rraDone.called
    /\ rraItems = <<>>
    /\ IF rraArray = <<>>
       THEN /\ rraDone' = [called |-> TRUE, err |-> NoError, results |-> rraArray]
            /\ UNCHANGED <<rraItems, rraAsked>>
       ELSE /\ rraItems' = [ i \in 1..Len(rraArray) |-> "first" ]
            /\ rraAsked' = { <<i, rraArray[i].loader>> : i \in 1..Len(rraArray) }
            /\ UNCHANGED rraDone
    /\ UNCHANGED <<rraArray, resolvable>>
    /\ UNCHANGED besideLoaders

\* resolver.resolve(item.loader) called back for item `i`.
RraResolved(i) ==
    /\ rraItems[i] = "first"
    /\ LET name == rraArray[i].loader IN
       IF name \in resolvable
       THEN /\ rraItems' = [rraItems EXCEPT ![i] = "ok"]
            /\ MapCallback(rraItems', NoError)
            /\ UNCHANGED rraAsked
       ELSE IF retries(name)
       THEN /\ rraItems' = [rraItems EXCEPT ![i] = "retry"]
            /\ rraAsked' = rraAsked \cup { <<i, name \o LoaderSuffix>> }
            /\ UNCHANGED rraDone
       ELSE /\ rraItems' = [rraItems EXCEPT ![i] = "failed"]
            /\ MapCallback(rraItems', ResolveError(i, FALSE))
            /\ UNCHANGED rraAsked
    /\ UNCHANGED <<rraArray, resolvable>>
    /\ UNCHANGED besideLoaders

\* resolver.resolve(item.loader + "-loader") called back for item `i`: the
\* first error is reported, its message extended when the retry resolved.
RraRetried(i) ==
    /\ rraItems[i] = "retry"
    /\ LET err2 == (rraArray[i].loader \o LoaderSuffix) \notin resolvable IN
       /\ rraItems' = [rraItems EXCEPT ![i] = "failed"]
       /\ MapCallback(rraItems', ResolveError(i, ~err2))
    /\ UNCHANGED <<rraArray, resolvable, rraAsked>>
    /\ UNCHANGED besideLoaders

(***************************************************************************)
(* NormalModuleFactory.create and the dependency cache                     *)
(***************************************************************************)

\* Bound on the number of calls of create().
MaxCreates == 2

Dependencies == { "d1", "d2" }
Modules == { "m1", "m2" }
NoModule == "undefined"

\* data.dependencies: one dependency, or two different ones.
DependencyLists ==
    { <<d>> : d \in Dependencies }
    \cup { l \in { <<d, e>> : d \in Dependencies, e \in Dependencies } :
               l[1] # l[2] }

\* The factories: options.unsafeCache unset, `true`, or a function (here one
\* that accepts the module m1 only).
Factories ==
    { [unsafeCache |-> FALSE, cachePredicate |-> Modules],
      [unsafeCache |-> TRUE, cachePredicate |-> Modules],
      [unsafeCache |-> TRUE, cachePredicate |-> {"m1"}] }

\* No entry of the WeakMap for a dependency.
NoEntry == [module |-> NoModule, by |-> 0]

\* The object create() builds for its callback; `by` is the call that built
\* it, which stands for the identity of the object.
FactoryResult(module, i) == [module |-> module, by |-> i]

\* A plausible slip: the outcome is cached whether or not there is a module.
cachesAnyOutcome(f, module) == f.unsafeCache

\* this.unsafeCache && module && this.cachePredicate(module)
caches(f, module) ==
    f.unsafeCache /\ module # NoModule /\ module \in f.cachePredicate

\* callback(err, result) of the call `i`
CreateCallback(i, err, result) ==
    [creates[i] EXCEPT !.pc = "done", !.err = err, !.result = result]

\* create(data, callback), down to hooks.beforeResolve.callAsync
CreateCall ==
    /\ Len(creates) < MaxCreates
    /\ \E f \in Factories, deps \in DependencyLists :
         LET i == Len(creates) + 1
             call == [factory |-> f, dependencies |-> deps, hooks |-> {},
                      pc |-> "beforeResolve", hit |-> FALSE, err |-> FALSE,
                      result |-> NoEntry]
         IN IF f.unsafeCache /\ dependencyCache[deps[1]] # NoEntry
            THEN creates' = Append(creates,
                     [call EXCEPT !.pc = "done", !.hit = TRUE,
                                  !.result = dependencyCache[deps[1]]])
            ELSE creates' = Append(creates,
                     [call EXCEPT !.hooks = {"beforeResolve"}])
    /\ UNCHANGED dependencyCache
    /\ UNCHANGED besideCreate

\* The callback of hooks.beforeResolve.callAsync, down to
\* hooks.factorize.callAsync, whose tap calls hooks.resolve.
BeforeResolveCalled(i) ==
    /\ creates[i].pc = "beforeResolve"
    /\ \E outcome \in { "error", "false", "undefined" } :
         creates' =
           [creates EXCEPT ![i] =
              CASE outcome = "error" ->
                     CreateCallback(i, TRUE, FactoryResult(NoModule, i))
                [] outcome = "false" ->
                     CreateCallback(i, FALSE, FactoryResult(NoModule, i))
                [] OTHER ->
                     [creates[i] EXCEPT !.pc = "factorize",
                        !.hooks = @ \cup {"factorize", "resolve"}]]
    /\ UNCHANGED dependencyCache
    /\ UNCHANGED besideCreate

\* The callback of hooks.factorize.callAsync: an error, no module (the
\* request was ignored) or a module.
FactorizeCalled(i) ==
    /\ creates[i].pc = "factorize"
    /\ \E err \in BOOLEAN, module \in Modules \cup {NoModule} :
         /\ err => module = NoModule
         /\ creates' =
              [creates EXCEPT ![i] =
                 CreateCallback(i, err, FactoryResult(module, i))]
         /\ IF ~err /\ caches(creates[i].factory, module)
            THEN dependencyCache' =
                   [d \in Dependencies |->
                      IF \E k \in DOMAIN creates[i].dependencies :
                            creates[i].dependencies[k] = d
                      THEN FactoryResult(module, i)
                      ELSE dependencyCache[d]]
            ELSE UNCHANGED dependencyCache
    /\ UNCHANGED besideCreate

(***************************************************************************)
(* NormalModuleFactory "factorize" tap                                     *)
(***************************************************************************)

\* The factorize tap before it is entered, and once it has called
\* hooks.resolve.
IdleFactorize ==
    [pc |-> "idle", err |-> NoErr, module |-> NoModule,
     afterResolve |-> "none", createModule |-> NoModule]
EnteredFactorize == [IdleFactorize EXCEPT !.pc = "resolve"]

\* callback(err, module) of the factorize tap
FactorizeCallback(err, module) ==
    [factorized EXCEPT !.pc = "done", !.err = err, !.module = module]

\* A plausible slip: an empty request is not looked for.
noRequestNever(r) == FALSE

\* !resolveData.request
noRequest(r) == r = <<>>

\* The callback of hooks.resolve.callAsync: the error of the tap, the
\* RawModule of an ignored request, or on to hooks.afterResolve.
ResolveCalled ==
    /\ factorized.pc = "resolve"
    /\ created # <<>>
    /\ LET r == created[Len(created)] IN
       /\ r.status # "thrown"
       /\ factorized' =
            CASE r.status = "error" -> FactorizeCallback(r.err, NoModule)
              [] r.status = "ignored" -> FactorizeCallback(NoErr, "RawModule")
              [] OTHER -> [factorized EXCEPT !.pc = "afterResolve"]
    /\ UNCHANGED <<request, written, matched, nf, created, registered>>
    /\ UNCHANGED besideResolve

\* The callback of hooks.afterResolve.callAsync: an error, false (the
\* request is ignored), or the module is created: the one of the
\* createModule hook, else a NormalModule unless there is no request.
AfterResolveCalled ==
    /\ factorized.pc = "afterResolve"
    /\ \E outcome \in { "error", "false", "undefined" },
          createdModule \in { NoModule, "HookModule" } :
         factorized' =
           CASE outcome = "error" ->
                  [FactorizeCallback("E_afterResolve", NoModule)
                     EXCEPT !.afterResolve = outcome]
             [] outcome = "false" ->
                  [FactorizeCallback(NoErr, NoModule)
                     EXCEPT !.afterResolve = outcome]
             [] OTHER ->
                  [(IF createdModule = NoModule
                    THEN IF noRequest(request)
                         THEN FactorizeCallback("Empty dependency (no request)",
                                                NoModule)
                         ELSE FactorizeCallback(NoErr, "NormalModule")
                    ELSE FactorizeCallback(NoErr, createdModule))
                     EXCEPT !.afterResolve = outcome,
                            !.createModule = createdModule]
    /\ UNCHANGED <<request, written, matched, nf, created, registered>>
    /\ UNCHANGED besideResolve

(***************************************************************************)
(* JavascriptModulesPlugin.renderModule                                    *)
(***************************************************************************)

\* What one call of renderModule can throw from: reading the code
\* generation result, or one of the three hooks.
RenderSteps ==
    { "codeGenerationResults", "renderModuleContent",
      "renderModuleContainer", "renderModulePackage" }

\* The calls of renderModule: the module, the `factory` argument, whether
\* the module has javascript code, its runtime requirements, what the
\* target supports, and the step that throws (if one does) with the module
\* the error it throws is tagged with already.
RenderCalls ==
    [module : {"m1", "m2"},
     factory : {"false", "true", "strict"},
     moduleSource : BOOLEAN,
     needModule : BOOLEAN, needExports : BOOLEAN, needRequire : BOOLEAN,
     needThisAsExports : BOOLEAN,
     supportsArrowFunction : BOOLEAN,
     strict : BOOLEAN,
     throws : RenderSteps \cup {"none"},
     tagged : {"undefined", "m2"}]

NotRendered == [kind |-> "none"]

\* A plausible slip: every factory function takes the three parameters.
FactoryArgsAll(c) == << "module", "exports", "__webpack_require__" >>

\* The arguments of the factory function
FactoryArgs(c) ==
    (IF c.needExports \/ c.needRequire \/ c.needModule
     THEN << IF c.needModule THEN "module" ELSE "__unused_webpack_module" >>
     ELSE <<>>)
    \o (IF c.needExports \/ c.needRequire
        THEN << IF c.needExports THEN "exports"
                ELSE "__unused_webpack_exports" >>
        ELSE <<>>)
    \o (IF c.needRequire THEN << "__webpack_require__" >> ELSE <<>>)

\* The source a call returns when nothing throws
ModuleSource(c) ==
    IF c.factory = "false"
    THEN [kind |-> "source", container |-> "none", args |-> <<>>,
          useStrict |-> FALSE, module |-> c.module]
    ELSE [kind |-> "source",
          container |-> IF ~c.needThisAsExports /\ c.supportsArrowFunction
                        THEN "arrow" ELSE "function",
          args |-> FactoryArgs(c),
          useStrict |-> c.strict /\ c.factory # "strict",
          module |-> c.module]

\* A plausible slip: the error is thrown on as it came.
catchUntagged(e, module) == e

\* catch (e) { e.module = module; throw e; }
catch(e, module) == [e EXCEPT !.module = module]

\* The error the step `step` throws
Thrown(c, step) == [kind |-> "thrown", from |-> step, module |-> c.tagged]

\* renderModule(module, renderContext, hooks, factory)
renderModule(c) ==
    IF c.throws = "codeGenerationResults"
    THEN catch(Thrown(c, c.throws), c.module)
    ELSE IF ~c.moduleSource THEN [kind |-> "null"]
    ELSE IF c.throws = "renderModuleContent"
    THEN catch(Thrown(c, c.throws), c.module)
    ELSE IF c.factory # "false" /\ c.throws = "renderModuleContainer"
    THEN catch(Thrown(c, c.throws), c.module)
    ELSE IF c.throws = "renderModulePackage"
    THEN catch(Thrown(c, c.throws), c.module)
    ELSE ModuleSource(c)

RenderModule ==
    /\ rendered = NotRendered
    /\ renderCall.module # "none"
    /\ rendered' = renderModule(renderCall)
    /\ UNCHANGED renderCall
    /\ UNCHANGED besideRenderModule

(***************************************************************************)
(* JavascriptModulesPlugin.renderBootstrap and renderMain                  *)
(***************************************************************************)

\* The tree runtime requirements renderBootstrap looks at.  (entryModuleId
\* changes the text only, not what it runs.)
RuntimeGlobals ==
    { "require", "moduleCache", "moduleFactories", "moduleFactoriesAddOnly",
      "module", "exports",
      "requireScope", "interceptModuleExecution", "returnExportsFromRuntime",
      "startupNoDefault", "startup" }

\* The entry modules a chunk can have, in the order of the chunk graph.
EntryIds == << "e1", "e2" >>

\* An entry module: whether an active connection from a module comes in,
\* and its own runtime requirements.  (An entry module is a javascript
\* module: renderModule has a source for it.)
EntryModules(id) ==
    [id : {id}, referenced : BOOLEAN,
     requirements : { {}, {"module"}, {"exports"} }]

EntryLists ==
    { <<>> }
    \cup { <<e>> : e \in EntryModules(EntryIds[1]) }
    \cup { <<e, f>> : e \in EntryModules(EntryIds[1]),
                      f \in EntryModules(EntryIds[2]) }

\* The tree runtime requirements of a chunk hold those of its modules, and
\* startupNoDefault ("__webpack_require__.x (no default handler)") comes
\* with startup ("__webpack_require__.x"), which it qualifies.
Chunks ==
    { c \in [requirements : SUBSET RuntimeGlobals, entries : EntryLists] :
        /\ \A i \in DOMAIN c.entries :
              c.entries[i].requirements \subseteq c.requirements
        /\ "startupNoDefault" \in c.requirements
           => "startup" \in c.requirements }

NoChunk == [requirements |-> {}, entries |-> <<>>]

\* useRequire
useRequire(c) ==
    c.requirements \cap { "require", "interceptModuleExecution",
                          "returnExportsFromRuntime", "module", "exports" } # {}

\* A plausible slip: only the module factories forbid inlining.
allowedBeforeEntriesFactoriesOnly(c) == "moduleFactories" \notin c.requirements

\* result.allowInlineStartup after the four requirement checks
allowedBeforeEntries(c) ==
    c.requirements \cap { "moduleFactories", "moduleCache",
                          "interceptModuleExecution",
                          "returnExportsFromRuntime" } = {}

\* The statement that starts the entry module `e` (`last`: it is the last
\* entry of the chunk)
EntryStatement(c, e, last) ==
    IF useRequire(c)
    THEN [op |-> "require", id |-> e.id,
          return |-> last /\ "returnExportsFromRuntime" \in c.requirements]
    ELSE IF "requireScope" \in c.requirements
    THEN [op |-> "factory(0, 0, require)", id |-> e.id, return |-> FALSE]
    ELSE [op |-> "factory()", id |-> e.id, return |-> FALSE]

RECURSIVE EntryLoop(_, _, _, _)
\* for (const entryModule of chunkGraph.getChunkEntryModulesIterable(chunk)):
\* from the entry `i` on, with result.allowInlineStartup and buf2 so far
EntryLoop(c, i, allow, buf2) ==
    IF i > Len(c.entries) THEN [allowInlineStartup |-> allow, buf2 |-> buf2]
    ELSE LET e == c.entries[i]
             unreferenced == allow /\ ~e.referenced
             allowed == IF useRequire(c)
                        THEN unreferenced /\ e.requirements = {}
                        ELSE unreferenced
         IN EntryLoop(c, i + 1, allowed,
                      Append(buf2, EntryStatement(c, e, i = Len(c.entries))))

\* `return __webpack_require__.x();`
RunStartup == [op |-> "startup", id |-> "x", return |-> TRUE]

\* The startup function (__webpack_require__.x) that the bootstrap does not
\* define: none is called, or one a runtime module has to define.
NoStartupFunction == [by |-> "none", body |-> <<>>]
RuntimeStartupFunction == [by |-> "runtime module", body |-> <<>>]

\* __webpack_require__.x = function() { buf2 }
StartupFunction(buf2) == [by |-> "bootstrap", body |-> buf2]

\* A plausible slip: the require scope object is declared for no chunk.
declareRequireNoScope(c) ==
    IF useRequire(c) THEN << "function __webpack_require__" >> ELSE <<>>

\* The declaration of __webpack_require__ in the header: the require
\* function, else the require scope object, else none.
declareRequire(c) ==
    IF useRequire(c) THEN << "function __webpack_require__" >>
    ELSE IF "requireScope" \in c.requirements
    THEN << "var __webpack_require__ = {}" >>
    ELSE <<>>

\* A plausible slip: the module cache object is declared for every chunk.
declareModuleCacheAlways(c) == << "var __webpack_module_cache__ = {}" >>

\* The module cache object of the header
declareModuleCache(c) ==
    IF useRequire(c) \/ "moduleCache" \in c.requirements
    THEN << "var __webpack_module_cache__ = {}" >>
    ELSE <<>>

\* result.header: the statements of the header, in order; `startupFunction`
\* is the startup function the entry loop gave.
bootstrapHeader(c, startupFunction) ==
    declareModuleCache(c)
    \o declareRequire(c)
    \o (IF c.requirements \cap {"moduleFactories", "moduleFactoriesAddOnly"} # {}
        THEN << "__webpack_require__.m = __webpack_modules__" >> ELSE <<>>)
    \o (IF "moduleCache" \in c.requirements
        THEN << "__webpack_require__.c = __webpack_module_cache__" >>
        ELSE <<>>)
    \o (IF "interceptModuleExecution" \in c.requirements
        THEN << "__webpack_require__.i = []" >> ELSE <<>>)
    \o (IF startupFunction.by = "bootstrap"
        THEN << "__webpack_require__.x = function" >> ELSE <<>>)

\* renderBootstrap(renderContext, hooks): result.allowInlineStartup,
\* result.startup, result.header and of it the startup function.
renderBootstrap(c) ==
    LET allow == allowedBeforeEntries(c)
        result ==
          IF "startupNoDefault" \notin c.requirements
          THEN IF Len(c.entries) > 0
               THEN LET loop == EntryLoop(c, 1, allow, <<>>) IN
                    IF "startup" \in c.requirements
                    THEN [allowInlineStartup |-> FALSE,
                          startupFunction |-> StartupFunction(loop.buf2),
                          startup |-> << RunStartup >>]
                    ELSE [allowInlineStartup |-> loop.allowInlineStartup,
                          startupFunction |-> NoStartupFunction,
                          startup |-> loop.buf2]
               ELSE [allowInlineStartup |-> allow,
                     startupFunction |-> IF "startup" \in c.requirements
                                         THEN StartupFunction(<<>>)
                                         ELSE NoStartupFunction,
                     startup |-> <<>>]
          ELSE IF "startup" \in c.requirements
          THEN [allowInlineStartup |-> FALSE,
                startupFunction |-> RuntimeStartupFunction,
                startup |-> << RunStartup >>]
          ELSE [allowInlineStartup |-> allow,
                startupFunction |-> NoStartupFunction,
                startup |-> <<>>]
    IN [allowInlineStartup |-> result.allowInlineStartup,
        startupFunction |-> result.startupFunction,
        startup |-> result.startup,
        header |-> bootstrapHeader(c, result.startupFunction)]

NoBootstrap ==
    [allowInlineStartup |-> FALSE, startupFunction |-> NoStartupFunction,
     startup |-> << [op |-> "none", id |-> "none", return |-> FALSE] >>,
     header |-> <<>>]

\* The ids of the modules `entries`, in their order
ModuleIds(entries) == [ i \in DOMAIN entries |-> entries[i].id ]


\* A plausible slip: the startup code is added also when the entries are
\* rendered inline.
startupOfMainAlways(b) == b.startup

\* The startup code renderMain adds: none when the entries are inlined.
startupOfMain(b) == IF b.allowInlineStartup THEN <<>> ELSE b.startup

\* renderMain(renderContext, hooks): the module ids of __webpack_modules__,
\* the startup function of the header, the entry modules rendered inline
\* and the startup code.
renderMain(c) ==
    LET b == renderBootstrap(c) IN
    [modules |-> IF b.allowInlineStartup THEN {}
                 ELSE Range(ModuleIds(c.entries)),
     startupFunction |-> b.startupFunction,
     inlined |-> IF b.allowInlineStartup THEN ModuleIds(c.entries)
                 ELSE <<>>,
     startup |-> startupOfMain(b)]

NoMain ==
    [modules |-> {}, startupFunction |-> NoStartupFunction,
     inlined |-> <<>>,
     startup |-> << [op |-> "none", id |-> "none", return |-> FALSE] >>]

RECURSIVE RunCode(_, _)
\* What running the statements `code` of the rendered chunk `out` executes:
\* the ids of the modules whose code runs, in order.  Calling a factory that
\* __webpack_modules__ does not hold throws, a `return` ends the code.
RunCode(out, code) ==
    IF code = <<>> THEN <<>>
    ELSE LET st == Head(code) IN
         IF st.op = "startup"
         THEN IF out.startupFunction.by # "bootstrap" THEN <<>>
              ELSE RunCode(out, out.startupFunction.body)
         ELSE IF st.id \notin out.modules THEN <<>>
         ELSE << st.id >>
              \o (IF st.return THEN <<>> ELSE RunCode(out, Tail(code)))

\* The modules the rendered chunk executes when it is loaded: the entries
\* rendered inline, then the startup code.
Executed(out) == out.inlined \o RunCode(out, out.startup)

\* The chunkHash tap: renderBootstrap for the hash of the chunk.
ChunkHash ==
    /\ chunk # NoChunk
    /\ bootstrap = NoBootstrap
    /\ bootstrap' = renderBootstrap(chunk)
    /\ UNCHANGED <<chunk, main>>
    /\ UNCHANGED besideRenderMain

\* The render function of the manifest entry of the chunk: renderMain.
RenderMain ==
    /\ chunk # NoChunk
    /\ bootstrap # NoBootstrap
    /\ main = NoMain
    /\ main' = renderMain(chunk)
    /\ UNCHANGED <<chunk, bootstrap>>
    /\ UNCHANGED besideRenderMain

(***************************************************************************)
(* The runtime renderRequire emits: __webpack_require__                    *)
(***************************************************************************)

\* Bounds: how many modules a factory requires, how deep the calls nest.
MaxRequires == 2
MaxDepth == 4

ModuleIdsOfChunk == { 1, 2 }

\* What the factories of the chunk require, in order
RequireLists == UNION { [1..n -> ModuleIdsOfChunk] : n \in 0..MaxRequires }

NoThrow == 0

\* `exports: {}` of a module that is not in the cache
Uncached == [cached |-> FALSE, l |-> FALSE]

\* A plausible slip: the module is not put into the cache before its
\* factory has run.
instantiateUncached(cache, moduleId) == cache

\* var module = __webpack_module_cache__[moduleId] =
\*     { i: moduleId, l: false, exports: {} };
instantiate(cache, moduleId) ==
    [cache EXCEPT ![moduleId] = [cached |-> TRUE, l |-> FALSE]]

StackIds == { stack[i].id : i \in DOMAIN stack }

\* What a call gives back: the exports object of the module `moduleId`, as
\* far as its factory has filled it; `cyclic`: the factory of that module
\* is in execution.
Returns(moduleId, cache) ==
    [id |-> moduleId, complete |-> cache[moduleId].l,
     cyclic |-> moduleId \in StackIds]

NothingReturned == [id |-> 0, complete |-> FALSE, cyclic |-> FALSE]

\* __webpack_require__(moduleId), down to the call of the factory: the
\* cached module's exports are returned, else the module is created, put
\* into the cache, and its factory is called.
webpackRequire(moduleId, callers) ==
    IF webpackModuleCache[moduleId].cached
    THEN /\ returned' = Returns(moduleId, webpackModuleCache)
         /\ stack' = callers
         /\ UNCHANGED <<webpackModuleCache, executions>>
    ELSE /\ webpackModuleCache' = instantiate(webpackModuleCache, moduleId)
         /\ stack' = Append(callers, [id |-> moduleId, next |-> 1])
         /\ executions' = [executions EXCEPT ![moduleId] = @ + 1]
         /\ UNCHANGED returned

\* The code outside the modules (the startup, a callback) requires a module
\* it has not required before.
RequireFromOutside ==
    /\ stack = <<>>
    /\ \E moduleId \in ModuleIdsOfChunk \ required :
         /\ required' = required \cup {moduleId}
         /\ webpackRequire(moduleId, stack)
    /\ UNCHANGED <<webpackModules, strictModuleExceptionHandling, throwing>>
    /\ UNCHANGED besideRuntime

\* The factory in execution calls __webpack_require__ for what it requires
\* next.
RequireFromFactory ==
    /\ stack # <<>>
    /\ Len(stack) < MaxDepth
    /\ LET top == stack[Len(stack)] IN
       /\ top.next <= Len(webpackModules[top.id])
       /\ webpackRequire(webpackModules[top.id][top.next],
                         [stack EXCEPT ![Len(stack)].next = @ + 1])
    /\ UNCHANGED <<webpackModules, strictModuleExceptionHandling, throwing,
                   required>>
    /\ UNCHANGED besideRuntime

\* The factory returns: module.l = true; return module.exports;
FactoryReturns ==
    /\ stack # <<>>
    /\ LET top == stack[Len(stack)] IN
       /\ top.next > Len(webpackModules[top.id])
       /\ top.id # throwing
       /\ webpackModuleCache' =
            [webpackModuleCache EXCEPT ![top.id].l = TRUE]
       /\ stack' = SubSeq(stack, 1, Len(stack) - 1)
       /\ returned' = [Returns(top.id, webpackModuleCache')
                         EXCEPT !.cyclic = FALSE]
    /\ UNCHANGED <<webpackModules, strictModuleExceptionHandling, throwing,
                   executions, required>>
    /\ UNCHANGED besideRuntime

\* A plausible slip: the eviction is emitted whatever the option says.
finallyAlwaysDeletes(cache, threw) ==
    [ moduleId \in ModuleIdsOfChunk |->
        IF moduleId \in threw THEN Uncached ELSE cache[moduleId] ]

\* finally { if(threw) delete __webpack_module_cache__[moduleId]; }, emitted
\* only with strictModuleExceptionHandling; `threw`: the modules whose calls
\* the error leaves.
finally(cache, threw) ==
    IF strictModuleExceptionHandling
    THEN [ moduleId \in ModuleIdsOfChunk |->
             IF moduleId \in threw THEN Uncached ELSE cache[moduleId] ]
    ELSE cache

\* The factory throws, and the error leaves every call in execution: with
\* strictModuleExceptionHandling each of them deletes its module from the
\* cache on the way (`finally`), without it the modules stay cached,
\* unloaded.
FactoryThrows ==
    /\ stack # <<>>
    /\ LET top == stack[Len(stack)] IN
       /\ top.next > Len(webpackModules[top.id])
       /\ top.id = throwing
    /\ webpackModuleCache' = finally(webpackModuleCache, StackIds)
    /\ stack' = <<>>
    /\ returned' = NothingReturned
    /\ UNCHANGED <<webpackModules, strictModuleExceptionHandling, throwing,
                   executions, required>>
    /\ UNCHANGED besideRuntime

(***************************************************************************)
(* AssetGenerator.generate                                                 *)
(***************************************************************************)

\* The runtime requirements a generate call can find in the set it is given
AssetRuntimeGlobals == { "module", "publicPath", "require" }

\* What this.dataUrlOptions can be: a function, or options with an encoding
DataUrlOptions == { "function", "base64", "false", "utf8" }

GenerateCalls ==
    [ type : { "asset", "javascript" },
      dataUrl : BOOLEAN,
      dataUrlOptions : DataUrlOptions,
      originalSource : { "text", "bytes" },
      url : { "a.txt", "img/b.png" },
      runtimeRequirements : SUBSET AssetRuntimeGlobals ]

NotGenerated == [pc |-> "call", source |-> <<>>, runtimeRequirements |-> {}]

\* JSON.stringify of a string
JSONstringify(string) == [json |-> string]

\* A plausible slip: the url is exported without the public path.
exportsUrlOnly(url) ==
    << "module", ".exports = ", JSONstringify(url), ";" >>

\* `${RuntimeGlobals.module}.exports = ${RuntimeGlobals.publicPath} +
\*  ${JSON.stringify(url)};`
exportsUrl(url) ==
    << "module", ".exports = ", "publicPath", " + ", JSONstringify(url), ";" >>

\* The data url of a source, by this.dataUrlOptions
encodedSource(c) ==
    IF c.dataUrlOptions = "function"
    THEN [by |-> "function", of |-> c.originalSource]
    ELSE [by |-> "data:", mimeType |-> "mime",
          encoding |-> IF c.dataUrlOptions = "base64" THEN ";base64" ELSE "",
          encodedContent |->
            IF c.dataUrlOptions = "base64"
            THEN [base64 |-> c.originalSource]
            ELSE [encodeURI |-> c.originalSource]]

\* generate(module, { chunkGraph, runtimeTemplate, runtimeRequirements, type })
generate(c) ==
    IF c.type = "asset"
    THEN [pc |-> "returned", source |-> << c.originalSource >>,
          runtimeRequirements |-> c.runtimeRequirements]
    ELSE IF c.dataUrl
    THEN IF c.dataUrlOptions \in { "function", "base64", "false" }
         THEN [pc |-> "returned",
               source |-> << "module", ".exports = ",
                             JSONstringify(encodedSource(c)), ";" >>,
               runtimeRequirements |-> c.runtimeRequirements \cup {"module"}]
         ELSE [pc |-> "thrown", source |-> <<>>,
               runtimeRequirements |-> c.runtimeRequirements \cup {"module"}]
    ELSE [pc |-> "returned", source |-> exportsUrl(c.url),
          runtimeRequirements |->
            c.runtimeRequirements \cup {"module", "publicPath"}]

Generate ==
    /\ generated.pc = "call"
    /\ generated' = generate(generateCall)
    /\ UNCHANGED generateCall
    /\ UNCHANGED besideAsset

(***************************************************************************)
(* renderMain rendering the modules of a chunk: one module in two chunks   *)
(***************************************************************************)

\* Bound: how many modules a chunk has beside the shared one.
MaxOthers == 2

ChunksOfModule == { 1, 2 }

\* buildInfo.strict of the other modules of a chunk
OtherModules == UNION { [1..n -> BOOLEAN] : n \in 0..MaxOthers }

\* The shared module as renderModule sees it, the `factory` argument left
\* to the chunk.
SharedModules ==
    { c \in RenderCalls :
        /\ c.module = "m1" /\ c.factory = "true" /\ c.tagged = "undefined"
        /\ c.throws \in { "none", "renderModulePackage" } }

\* A plausible slip: no chunk counts as strict as a whole.
allStrictNever(strict, others) == FALSE

\* const allStrict = allModules.every(m => m.buildInfo.strict);
allStrict(strict, others) ==
    strict /\ \A i \in DOMAIN others : others[i]

\* module => this.renderModule(module, renderContext, hooks,
\*                             allStrict ? "strict" : true)
renderChunkModule(c, others) ==
    renderModule([c EXCEPT !.factory =
                    IF allStrict(c.strict, others) THEN "strict" ELSE "true"])

\* renderMain renders the shared module for one of its chunks.
RenderChunkModules ==
    /\ \E i \in ChunksOfModule :
         /\ renders[i] = NotRendered
         /\ renders' = [renders EXCEPT
                          ![i] = renderChunkModule(sharedModule, allModules[i])]
    /\ UNCHANGED <<sharedModule, allModules>>
    /\ UNCHANGED besideShared

(***************************************************************************)
(* renderMain: the "use strict" directives of a chunk                      *)
(***************************************************************************)

\* The most javascript modules of the chunk
MaxChunkModules == 3

\* The javascript modules of a chunk, by identifier: buildInfo.strict, and
\* whether the module is an entry module of the chunk; and
\* bootstrap.allowInlineStartup.
StrictChunks ==
    [ modules : UNION { [1..n -> [strict : BOOLEAN, entry : BOOLEAN]] :
                        n \in 0..MaxChunkModules },
      allowInlineStartup : BOOLEAN ]

NoStrictChunk == [modules |-> <<>>, allowInlineStartup |-> FALSE]

NoStrictMain ==
    [rendered |-> FALSE, useStrict |-> FALSE, chunkModules |-> <<>>,
     inlined |-> <<>>]

InitStrictIdle == strictChunk = NoStrictChunk /\ strictMain = NoStrictMain

\* The module `i` of the chunk as renderModule sees it
ModuleToRender(c, i, factory) ==
    [module |-> "m1", factory |-> factory, moduleSource |-> TRUE,
     needModule |-> FALSE, needExports |-> FALSE, needRequire |-> FALSE,
     needThisAsExports |-> FALSE, supportsArrowFunction |-> FALSE,
     strict |-> c.modules[i].strict, throws |-> "none",
     tagged |-> "undefined"]

\* A plausible slip: an inlined entry never gets a directive of its own.
innerStrictNever(all, strict) == FALSE

\* const innerStrict = !allStrict && m.buildInfo.strict;
innerStrict(all, strict) == ~all /\ strict

\* renderMain(renderContext, hooks), as far as "use strict" goes: the
\* prologue of the chunk, the modules of __webpack_modules__ as renderModule
\* returned them, and the entry modules rendered inline with their wrapper.
\* Modules that are not rendered have kind "none".
renderMainModules(c) ==
    LET all == allStrict(TRUE, [ i \in DOMAIN c.modules |-> c.modules[i].strict ])
        inlinedModules == IF c.allowInlineStartup
                          THEN { i \in DOMAIN c.modules : c.modules[i].entry }
                          ELSE {}
        chunkModules == DOMAIN c.modules \ inlinedModules
    IN
    [rendered |-> TRUE,
     useStrict |-> all,
     chunkModules |->
        [ i \in DOMAIN c.modules |->
            IF i \in chunkModules
            THEN renderModule(ModuleToRender(c, i, IF all THEN "strict"
                                                   ELSE "true"))
            ELSE NotRendered ],
     inlined |->
        [ i \in DOMAIN c.modules |->
            IF i \in inlinedModules
            THEN LET inner == innerStrict(all, c.modules[i].strict)
                     iife == \/ inner
                             \/ Cardinality(inlinedModules) > 1
                             \/ chunkModules # {}
                 IN [kind |-> "inlined",
                     source |-> renderModule(ModuleToRender(c, i, "false")),
                     iife |-> iife,
                     useStrict |-> iife /\ inner]
            ELSE [kind |-> "none"] ] ]

\* The render function of the manifest entry of the chunk: renderMain.
RenderMainModules ==
    /\ ~strictMain.rendered
    /\ strictMain' = renderMainModules(strictChunk)
    /\ UNCHANGED strictChunk
    /\ UNCHANGED besideStrict

(***************************************************************************)
(* Template.getModulesArrayBounds and Template.renderChunkModules          *)
(***************************************************************************)

\* The ids of the modules of a chunk lie in lo..lo + MaxSpan, lo one of
\* LowestIds: an array with a lower bound other than 0 pays from 13 modules
\* with ids of 18 and more.
MaxSpan == 14
LowestIds == { 0, 3, 17, 18, 25 }

\* let maxId = -Infinity; let minId = Infinity; (module ids are 0 and more)
NegInfinity == -1
Infinity == 1000000

\* A module id: a number, or a string (value: which one)
NumberId(n) == [typeof |-> "number", value |-> n]
StringId == [typeof |-> "string", value |-> 1]

\* The orders the modules are given in, and where a module with a string
\* id stands among them, if there is one
ModuleOrders == { "ascending", "descending" }
StringIdPlaces == { "none", "first", "last" }

RECURSIVE Ascending(_)
Ascending(ids) ==
    IF ids = {} THEN <<>>
    ELSE LET least == CHOOSE n \in ids : \A k \in ids : n <= k
         IN << least >> \o Ascending(ids \ {least})

Reversed(seq) == [ i \in DOMAIN seq |-> seq[Len(seq) + 1 - i] ]

\* The modules with the ids `ids`, each named by its place in the list:
\* `sourced` FALSE makes renderModule give null for the module with the
\* greatest id.
ModuleList(ids, order, place, sourced) ==
    LET asc == Ascending(ids)
        numbers == IF order = "ascending" THEN asc ELSE Reversed(asc)
        greatest == asc[Len(asc)]
        withNumbers == [ i \in DOMAIN numbers |->
                           [id |-> NumberId(numbers[i]), name |-> 0,
                            rendered |-> sourced \/ numbers[i] # greatest] ]
        withString == << [id |-> StringId, name |-> 0, rendered |-> TRUE] >>
        list == IF place = "first" THEN withString \o withNumbers
                ELSE IF place = "last" THEN withNumbers \o withString
                ELSE withNumbers
    IN [ i \in DOMAIN list |-> [list[i] EXCEPT !.name = i] ]

NotCalled == [kind |-> "not called"]

InitTemplateIdle ==
    /\ chunkModuleList = <<>>
    /\ removedIds = {}
    /\ arrayBounds = NotCalled
    /\ chunkModulesSource = NotCalled

RECURSIVE Digits(_)
\* ("" + n).length of a number that is 0 or more
Digits(n) == IF n < 10 THEN 1 ELSE 1 + Digits(n \div 10)

\* A plausible slip: the lower bound is never replaced by 0.
lowerBoundKept(minId) == minId

\* if (minId < 16 + ("" + minId).length) minId = 0;
lowerBound(minId) == IF minId < 16 + Digits(minId) THEN 0 ELSE minId

RECURSIVE boundsLoop(_, _, _, _)
\* for (const module of modules): from the module `i` on, with maxId and
\* minId so far; `number` FALSE: an id that is no number was met.
boundsLoop(modules, i, maxId, minId) ==
    IF i > Len(modules)
    THEN [number |-> TRUE, maxId |-> maxId, minId |-> minId]
    ELSE IF modules[i].id.typeof # "number"
    THEN [number |-> FALSE, maxId |-> maxId, minId |-> minId]
    ELSE LET moduleId == modules[i].id.value IN
         boundsLoop(modules, i + 1,
                    IF maxId < moduleId THEN moduleId ELSE maxId,
                    IF minId > moduleId THEN moduleId ELSE minId)

RECURSIVE reduceOverhead(_, _, _)
\* modules.map(module => (module.id + "").length + 2).reduce(
\*    (a, b) => a + b, -1), from the module `i` on
reduceOverhead(modules, i, a) ==
    IF i > Len(modules) THEN a
    ELSE reduceOverhead(modules, i + 1, a + Digits(modules[i].id.value) + 2)

NoBounds == [kind |-> "false", minId |-> 0, maxId |-> 0]

\* Template.getModulesArrayBounds(modules), of modules that are not none
getModulesArrayBounds(modules) ==
    LET loop == boundsLoop(modules, 1, NegInfinity, Infinity) IN
    IF ~loop.number THEN NoBounds
    ELSE LET minId == lowerBound(loop.minId)
             maxId == loop.maxId
             objectOverhead == reduceOverhead(modules, 1, -1)
             arrayOverhead == IF minId = 0 THEN maxId
                              ELSE 16 + Digits(minId) + maxId
         IN IF arrayOverhead < objectOverhead
            THEN [kind |-> "bounds", minId |-> minId, maxId |-> maxId]
            ELSE NoBounds

\* What stands in the rendered module map: the source renderModule gave for
\* the module named `of`, `false`, or nothing
ModuleSourceOf(name) == [kind |-> "source", of |-> name]
FalseSource == [kind |-> "false", of |-> 0]
Hole == [kind |-> "hole", of |-> 0]

\* A plausible slip: the array is rendered without Array(minId).concat(.
arrayPrefixNone(minId) == 0

\* if (minId !== 0) source.add(`Array(${minId}).concat(`): the length of
\* the array put before the literal
arrayPrefix(minId) == IF minId # 0 THEN minId ELSE 0

\* Template.renderChunkModules(renderContext, modules, renderModule, prefix)
renderChunkModules(modules, removedModules) ==
    IF Len(modules) = 0 /\ removedModules = {}
    THEN [kind |-> "null"]
    ELSE LET removed == Ascending(removedModules)
             everyModule ==
                [ i \in DOMAIN modules |->
                    [id |-> modules[i].id,
                     source |-> IF modules[i].rendered
                                THEN ModuleSourceOf(modules[i].name)
                                ELSE FalseSource] ]
                \o [ i \in DOMAIN removed |->
                       [id |-> NumberId(removed[i]), source |-> FalseSource] ]
             bounds == getModulesArrayBounds(everyModule)
         IN
         IF bounds.kind = "bounds"
         THEN [kind |-> "array",
               concat |-> arrayPrefix(bounds.minId),
               elements |->
                  [ k \in 1..(bounds.maxId - bounds.minId + 1) |->
                      LET idx == bounds.minId + k - 1
                          set == { i \in DOMAIN everyModule :
                                     everyModule[i].id = NumberId(idx) }
                      IN IF set = {} THEN Hole
                         ELSE everyModule[CHOOSE i \in set :
                                            \A j \in set : j <= i].source ]]
         ELSE [kind |-> "object",
               entries |-> [ i \in DOMAIN everyModule |->
                               [key |-> everyModule[i].id,
                                source |-> everyModule[i].source] ]]

\* One call of Template.getModulesArrayBounds with the modules
GetModulesArrayBounds ==
    /\ arrayBounds = NotCalled
    /\ chunkModuleList # <<>>
    /\ arrayBounds' = getModulesArrayBounds(chunkModuleList)
    /\ UNCHANGED <<chunkModuleList, removedIds, chunkModulesSource>>
    /\ UNCHANGED besideTemplate

\* One call of Template.renderChunkModules with the modules
TemplateRenderChunkModules ==
    /\ chunkModulesSource = NotCalled
    /\ chunkModulesSource' = renderChunkModules(chunkModuleList, removedIds)
    /\ UNCHANGED <<chunkModuleList, removedIds, arrayBounds>>
    /\ UNCHANGED besideTemplate

(***************************************************************************)
(* Two builds of one chunk: renderChunk, renderMain, the content hash      *)
(***************************************************************************)

Builds == { 1, 2 }

\* The modules, named by their identifiers: 1, 2 and 3 stand for three
\* strings in their order.
ModuleIdentifiers == { 1, 2, 3 }

\* The ids the modules have, the same in both builds: an array, an object
\* with a far id, an object with a string id
IdAssignments ==
    { << NumberId(0), NumberId(1), NumberId(2) >>,
      << NumberId(40), NumberId(0), NumberId(1) >>,
      << NumberId(1), StringId, NumberId(0) >> }

\* The orders a set of modules can be added to a chunk in
InsertionOrders ==
    { order \in UNION { [1..n -> ModuleIdentifiers] : n \in 0..3 } :
        \A i, j \in DOMAIN order : i # j => order[i] # order[j] }

NoInlinedEntry == 0

\* The entry module renderMain inlines: none, or the module 2
InlinedEntries == { NoInlinedEntry, 2 }

\* The module that has no source of the type javascript: none (0), or the
\* module 3
OtherSourceTypes == { 0, 3 }

InitOrderIdle ==
    /\ moduleTable = <<>>
    /\ insertionOrder = <<>>
    /\ inlinedEntry = NoInlinedEntry
    /\ chunkRenders = <<>>
    /\ mainRenders = <<>>
    /\ contentHashes = <<>>

RECURSIVE javascriptModules(_, _)
\* The modules of the list that have the source type javascript, from the
\* place i on
javascriptModules(order, i) ==
    IF i > Len(order) THEN <<>>
    ELSE (IF moduleTable[order[i]].javascript THEN << order[i] >> ELSE <<>>)
         \o javascriptModules(order, i + 1)

\* A plausible slip: the modules are taken in the order they were added.
getChunkModulesIterableBySourceType(b) ==
    javascriptModules(insertionOrder[b], 1)

\* chunkGraph.getOrderedChunkModulesIterableBySourceType(chunk,
\*    "javascript", compareModulesByIdentifier) || []
getOrderedChunkModulesIterableBySourceType(b) ==
    Ascending({ m \in ModuleIdentifiers :
                  \E i \in DOMAIN insertionOrder[b] :
                     /\ insertionOrder[b][i] = m
                     /\ moduleTable[m].javascript })

\* The modules as Template.renderChunkModules is given them; renderModule
\* gives a source for each
WithIds(modules) ==
    [ i \in DOMAIN modules |->
        [id |-> moduleTable[modules[i]].id, name |-> modules[i],
         rendered |-> TRUE] ]

RawBraces == [kind |-> "raw {}"]

\* renderChunk(renderContext, hooks): the module sources
renderChunk(b) ==
    LET modules == getOrderedChunkModulesIterableBySourceType(b)
        moduleSources == renderChunkModules(WithIds(modules), {})
    IN IF moduleSources.kind = "null" THEN RawBraces ELSE moduleSources

RECURSIVE notInlined(_, _)
\* allModules.filter(m => !inlinedModules.has(m)), from the place i on
notInlined(modules, i) ==
    IF i > Len(modules) THEN <<>>
    ELSE (IF modules[i] # inlinedEntry THEN << modules[i] >> ELSE <<>>)
         \o notInlined(modules, i + 1)

\* renderMain(renderContext, hooks): the chunk modules
renderMainChunkModules(b) ==
    LET everyModule == getOrderedChunkModulesIterableBySourceType(b)
    IN renderChunkModules(
          WithIds(IF inlinedEntry # NoInlinedEntry
                  THEN notInlined(everyModule, 1) ELSE everyModule), {})

\* The contentHash tap: the digest, a function of what the hash is updated
\* with: the chunk's id, its ids, then the hash of each module (each module
\* has a hash of its own)
contentHash(b) ==
    LET modules == getOrderedChunkModulesIterableBySourceType(b)
    IN [kind |-> "digest",
        chunk |-> << "chunk.id", "chunk.ids" >>,
        moduleHashes |-> modules]

RenderChunk(b) ==
    /\ chunkRenders[b] = NotCalled
    /\ chunkRenders' = [chunkRenders EXCEPT ![b] = renderChunk(b)]
    /\ UNCHANGED <<moduleTable, insertionOrder, inlinedEntry, mainRenders,
                   contentHashes>>
    /\ UNCHANGED besideOrder

RenderMainChunkModules(b) ==
    /\ mainRenders[b] = NotCalled
    /\ mainRenders' = [mainRenders EXCEPT ![b] = renderMainChunkModules(b)]
    /\ UNCHANGED <<moduleTable, insertionOrder, inlinedEntry, chunkRenders,
                   contentHashes>>
    /\ UNCHANGED besideOrder

ContentHash(b) ==
    /\ contentHashes[b] = NotCalled
    /\ contentHashes' = [contentHashes EXCEPT ![b] = contentHash(b)]
    /\ UNCHANGED <<moduleTable, insertionOrder, inlinedEntry, chunkRenders,
                   mainRenders>>
    /\ UNCHANGED besideOrder

(***************************************************************************)
(* webpack(options, callback)                                              *)
(***************************************************************************)

\* The calls of webpack(): with or without a callback, options.watch, and
\* the error cache.shutdown reports to close's callback (if it does).
WebpackCalls ==
    [pc : {"call"}, callback : BOOLEAN, watch : BOOLEAN,
     err2 : Errs("E_shutdown"), closed : {FALSE}, called : {<<>>}]

NoWebpackCall ==
    [pc |-> "none", callback |-> FALSE, watch |-> FALSE, err2 |-> NoErr,
     closed |-> FALSE, called |-> <<>>]

\* A plausible slip: the error of close wins over the error of the run.
orSecond(err, err2) == IF err2 # NoErr THEN err2 ELSE err

\* err || err2
or(err, err2) == IF err # NoErr THEN err ELSE err2

\* webpack(options, callback): the compiler is created; with a callback,
\* compiler.watch or compiler.run is called; the compiler is returned.
Webpack ==
    /\ webpackCall.pc = "call"
    /\ webpackCall' = [webpackCall EXCEPT !.pc = "returned"]
    /\ IF webpackCall.callback
       THEN IF webpackCall.watch THEN watch ELSE run
       ELSE UNCHANGED <<lifeVars, compVars, emitVars>>
    /\ UNCHANGED besideWebpack

\* The run has called (err, stats) => compiler.close(...), and
\* cache.shutdown calls back: callback(err || err2, stats).
CloseDone ==
    /\ webpackCall.pc = "returned"
    /\ webpackCall.callback /\ ~webpackCall.watch
    /\ cbs # <<>>
    /\ ~webpackCall.closed
    /\ webpackCall' =
         [webpackCall EXCEPT
            !.closed = TRUE,
            !.called = Append(@, [err |-> or(cbs[1].err, webpackCall.err2),
                                  stats |-> cbs[1].stats])]
    /\ UNCHANGED <<lifeVars, compVars, emitVars, besideWebpack>>

(***************************************************************************)
(* Compiler.run as a loop: its steps without what they compute             *)
(***************************************************************************)

\* The error a step of run() can report
stepError(step) ==
    CASE step = "endIdle" -> "E_endIdle"
      [] step = "beforeRun" -> "E_beforeRun"
      [] step = "run" -> "E_run"
      [] step = "readRecords" -> "E_readRecords"
      [] step = "compile" -> "E_compile"
      [] step = "emitAssets" -> "E_emitAssets"
      [] step = "emitRecords" -> "E_emitRecords"
      [] step = "additionalPass" -> "E_additionalPass"
      [] OTHER -> "E_done"

\* The step run() goes on to when a step called back without error.
\* `answer`: what the hook that is asked then returns (shouldEmit after
\* compile, needAdditionalPass after emitAssets).
nextStep(step, answer) ==
    CASE step = "endIdle" -> "beforeRun"
      [] step = "beforeRun" -> "run"
      [] step = "run" -> "readRecords"
      [] step = "readRecords" -> "compile"
      [] step = "compile" -> IF answer THEN "emitAssets" ELSE "doneNoEmit"
      [] step = "emitAssets" ->
           IF answer THEN "doneAdditionalPass" ELSE "emitRecords"
      [] step = "doneAdditionalPass" -> "additionalPass"
      [] step = "additionalPass" -> "compile"
      [] step = "emitRecords" -> "done"
      [] OTHER -> "finalCallback"

\* A plausible slip: after a step that failed the run starts over.
onCalledBackStartsOver(step, err, answer) ==
    IF err # NoErr THEN "endIdle" ELSE nextStep(step, answer)

\* What run() does when the step it waits for calls back with `err`:
\* `if (err) return finalCallback(err)`, or the next step.
onCalledBack(step, err, answer) ==
    IF err # NoErr THEN "finalCallback" ELSE nextStep(step, answer)

\* A plausible slip: running is reset after the user's callback returned.
runningAtCallbackStillSet == TRUE

\* this.running when finalCallback invokes the user's callback:
\* `this.running = false` comes before `callback(err, stats)`.
runningAtCallback == FALSE

\* finalCallback(err, stats) with a callback that calls run() again: the
\* call is accepted or rejected by what running is then; an accepted run
\* has called cache.endIdle when the afterDone hook of the finished run is
\* called.
finalCallbackRunsAgain(err, stats) ==
    IF runningAtCallback
    THEN /\ finalCallback(err, stats, log)
         /\ lastCall' = [op |-> "run", err |-> ConcurrentCompilationError]
         /\ UNCHANGED nRuns
    ELSE /\ running' = TRUE
         /\ nRuns' = nRuns + 1
         /\ pc' = "endIdle"
         /\ lastCall' = [op |-> "run", err |-> NoErr]
         /\ log' = <<Ev("callback", stats), Ev("cache.endIdle", 0),
                     Ev("afterDone", stats)>>
         /\ cbs' = <<>>

\* The step the run waits for calls back.  (compile() and emitAssets are one
\* step each here; the compile() calls are counted up to the bound.)  The
\* user's callback may call run() again.
CalledBack ==
    /\ running /\ ~watchMode
    /\ \E err \in Errs(stepError(pc)), answer \in BOOLEAN, again \in BOOLEAN :
         LET next == onCalledBack(pc, err, answer)
             stats == IF err = NoErr THEN 1 ELSE 0 IN
         /\ Report(err)
         /\ IF next # "finalCallback"
            THEN /\ pc' = next
                 /\ UNCHANGED <<running, log, cbs, nRuns, lastCall>>
            ELSE IF again /\ nRuns < MaxBuilds /\ nCompile < MaxBuilds
            THEN finalCallbackRunsAgain(err, stats)
            ELSE /\ finalCallback(err, stats, log)
                 /\ UNCHANGED <<nRuns, lastCall>>
         /\ nCompile' = IF next = "compile" /\ nCompile < MaxBuilds
                        THEN nCompile + 1 ELSE nCompile
    /\ UNCHANGED <<watchMode, compiles, compilation,
                   nCompilations, nFactories, emitVars, besideCompiler>>

(***************************************************************************)
(* The Compiler after construction, and its steps                          *)
(***************************************************************************)

InitCompiler ==
    /\ running = FALSE
    /\ watchMode = FALSE
    /\ pc = "idle"
    /\ nRuns = 0
    /\ lastCall = [op |-> "none", err |-> NoErr]
    /\ log = <<>>
    /\ cbs = <<>>
    /\ reported = NoErr
    /\ nCompile = 0
    /\ compiles = <<>>
    /\ compilation = 0
    /\ nCompilations = 0
    /\ nFactories = 0
    /\ assets = [f \in Files |-> NoSource]
    /\ emittedAssets = {}
    /\ comparedForEmitAssets = {}
    /\ writtenFiles = [p \in Paths |-> 0]
    /\ sourceCache = [s \in Sources |-> NewCacheEntry]
    /\ tasks = {}
    /\ join = [c |-> 0, left |-> 0, called |-> TRUE]
    /\ fsOps = [f \in Files |-> <<>>]
    /\ assetSize = [f \in Files |-> -1]
    /\ prevEmit = [f \in Files |-> NoSource]

\* The output directory, the options and the asset names are the
\* environment's: here the builds produce one file.
InitOutput ==
    /\ files = { <<"a", "?", "q">> }
    /\ immutable \in SUBSET files
    /\ disk \in [Paths -> Contents \cup {Missing, Directory}]
    /\ compareBeforeEmit \in BOOLEAN

InitFactoryIdle ==
    /\ request = <<>>
    /\ written = [matchResource |-> <<>>, prefix |-> <<>>, loaders |-> <<>>,
                  resource |-> <<>>]
    /\ matched = <<>>
    /\ nf = IdleTap
    /\ created = <<>>
    /\ registered = [parser |-> TRUE, generator |-> TRUE]
    /\ factorized = IdleFactorize

InitLoadersIdle ==
    /\ rraArray = <<>>
    /\ resolvable = {}
    /\ rraItems = <<>>
    /\ rraAsked = {}
    /\ rraDone = [called |-> TRUE, err |-> NoError, results |-> <<>>]

InitCreate ==
    /\ dependencyCache = [d \in Dependencies |-> NoEntry]
    /\ creates = <<>>

InitRenderIdle ==
    /\ renderCall = [module |-> "none"]
    /\ rendered = NotRendered

InitMainIdle ==
    /\ chunk = NoChunk
    /\ bootstrap = NoBootstrap
    /\ main = NoMain

\* The runtime the chunk starts with: nothing cached, nothing in execution.
InitRuntime ==
    /\ webpackModuleCache = [moduleId \in ModuleIdsOfChunk |-> Uncached]
    /\ stack = <<>>
    /\ executions = [moduleId \in ModuleIdsOfChunk |-> 0]
    /\ required = {}
    /\ returned = NothingReturned

InitRuntimeIdle ==
    /\ webpackModules = [moduleId \in ModuleIdsOfChunk |-> <<>>]
    /\ strictModuleExceptionHandling = FALSE
    /\ throwing = NoThrow
    /\ InitRuntime

InitWebpackIdle == webpackCall = NoWebpackCall

\* No join is made.
InitJoinIdle ==
    /\ needed = 0
    /\ timesLeft = 0
    /\ completions = <<>>
    /\ continuations = <<>>

InitAssetIdle ==
    /\ generateCall = [type |-> "asset", dataUrl |-> FALSE,
                       dataUrlOptions |-> "function", originalSource |-> "text",
                       url |-> "a.txt", runtimeRequirements |-> {}]
    /\ generated = generate(generateCall)

InitSharedIdle ==
    /\ sharedModule = [module |-> "none", factory |-> "true",
                       moduleSource |-> FALSE, needModule |-> FALSE,
                       needExports |-> FALSE, needRequire |-> FALSE,
                       needThisAsExports |-> FALSE,
                       supportsArrowFunction |-> FALSE, strict |-> FALSE,
                       throws |-> "none", tagged |-> "undefined"]
    /\ allModules = [i \in ChunksOfModule |-> <<>>]
    /\ renders = [i \in ChunksOfModule |-> [kind |-> "null"]]

InitJavascriptIdle ==
    /\ InitRenderIdle /\ InitMainIdle /\ InitRuntimeIdle
    /\ InitAssetIdle /\ InitSharedIdle

\* The factory with nothing asked of it.
InitFactoriesIdle ==
    InitFactoryIdle /\ InitLoadersIdle /\ InitCreate

Init ==
    /\ InitCompiler /\ InitWebpackIdle /\ InitOrderIdle /\ InitTemplateIdle /\ InitStrictIdle /\ InitExternalsIdle /\ InitParseIdle /\ InitGetIdle /\ InitJoinIdle /\ InitOutput
    /\ InitFactoryIdle /\ InitLoadersIdle /\ InitCreate
    /\ InitJavascriptIdle

Next ==
    \/ Run
    \/ Watch
    \/ EndIdleDone
    \/ BeforeRunDone
    \/ RunHookDone
    \/ ReadRecordsDone
    \/ BeforeCompileDone
    \/ MakeDone
    \/ FinishDone
    \/ SealDone
    \/ AfterCompileDone
    \/ DoneNoEmitDone
    \/ EmitHookDone
    \/ MkdirpDone
    \/ \E t \in tasks : StatDone(t)
    \/ \E t \in tasks : ReadDone(t)
    \/ \E t \in tasks : WriteDone(t)
    \/ \E t \in tasks : AssetEmittedDone(t)
    \/ AfterEmitDone
    \/ DoneAdditionalPassDone
    \/ AdditionalPassDone
    \/ EmitRecordsDone
    \/ DoneDone

Spec == Init /\ [][Next]_vars

(***************************************************************************)
(* A NormalModuleFactory resolving one request                             *)
(***************************************************************************)

\* The Compiler is idle over an empty output directory.
InitOutputIdle ==
    /\ files = {}
    /\ immutable = {}
    /\ disk = [p \in Paths |-> Missing]
    /\ compareBeforeEmit = TRUE

InitFactory ==
    /\ written \in Writings
    /\ request = WriteRequest(written)
    /\ matched \in RuleResults
    /\ nf = IdleTap
    /\ created = <<>>
    /\ registered = [parser |-> TRUE, generator |-> TRUE]
    /\ factorized = EnteredFactorize

InitResolve ==
    /\ InitCompiler /\ InitWebpackIdle /\ InitOrderIdle /\ InitTemplateIdle /\ InitStrictIdle /\ InitExternalsIdle /\ InitParseIdle /\ InitGetIdle /\ InitJoinIdle /\ InitOutputIdle
    /\ InitFactory /\ InitLoadersIdle /\ InitCreate
    /\ InitJavascriptIdle

NextResolve ==
    \/ ResolveTap
    \/ LoadersResolved
    \/ ResourceResolved
    \/ \E kind \in {"post", "normal", "pre"} : UseResolved(kind)

SpecResolve == InitResolve /\ [][NextResolve]_vars

(***************************************************************************)
(* The factorize tap on one request, with the parsers and generators that  *)
(* are registered                                                          *)
(***************************************************************************)

\* The requests without match-resource, and at most one rule result.
InitFactorize ==
    /\ InitCompiler /\ InitWebpackIdle /\ InitOrderIdle /\ InitTemplateIdle /\ InitStrictIdle /\ InitExternalsIdle /\ InitParseIdle /\ InitGetIdle /\ InitJoinIdle /\ InitOutputIdle /\ InitLoadersIdle /\ InitCreate
    /\ InitJavascriptIdle
    /\ written \in { w \in Writings : w.matchResource = <<>> }
    /\ request = WriteRequest(written)
    /\ matched \in { rs \in RuleResults : Len(rs) <= 1 }
    /\ nf = IdleTap
    /\ created = <<>>
    /\ registered \in [parser : BOOLEAN, generator : BOOLEAN]
    /\ factorized = EnteredFactorize

NextFactorize ==
    \/ ResolveTap
    \/ LoadersResolved
    \/ ResourceResolved
    \/ \E kind \in {"post", "normal", "pre"} : UseResolved(kind)
    \/ ResolveCalled
    \/ AfterResolveCalled

SpecFactorize == InitFactorize /\ [][NextFactorize]_vars

(***************************************************************************)
(* resolveRequestArray resolving one array of loaders                      *)
(***************************************************************************)

InitLoaders ==
    /\ InitCompiler /\ InitWebpackIdle /\ InitOrderIdle /\ InitTemplateIdle /\ InitStrictIdle /\ InitExternalsIdle /\ InitParseIdle /\ InitGetIdle /\ InitJoinIdle /\ InitOutputIdle /\ InitFactoryIdle /\ InitCreate
    /\ InitJavascriptIdle
    /\ rraArray \in LoaderArrays
    /\ resolvable \in SUBSET LoaderRequests
    /\ rraItems = <<>>
    /\ rraAsked = {}
    /\ rraDone = [called |-> FALSE, err |-> NoError, results |-> <<>>]

NextLoaders ==
    \/ RraCall
    \/ \E i \in DOMAIN rraItems : RraResolved(i)
    \/ \E i \in DOMAIN rraItems : RraRetried(i)

SpecLoaders == InitLoaders /\ [][NextLoaders]_vars

(***************************************************************************)
(* Calls of create() on factories that share the dependency cache          *)
(***************************************************************************)

InitCreates ==
    /\ InitCompiler /\ InitWebpackIdle /\ InitOrderIdle /\ InitTemplateIdle /\ InitStrictIdle /\ InitExternalsIdle /\ InitParseIdle /\ InitGetIdle /\ InitJoinIdle /\ InitOutputIdle /\ InitFactoryIdle /\ InitLoadersIdle
    /\ InitCreate
    /\ InitJavascriptIdle

NextCreate ==
    \/ CreateCall
    \/ \E i \in DOMAIN creates : BeforeResolveCalled(i)
    \/ \E i \in DOMAIN creates : FactorizeCalled(i)

SpecCreate == InitCreates /\ [][NextCreate]_vars

(***************************************************************************)
(* One call of renderModule                                                *)
(***************************************************************************)

InitRenderModule ==
    /\ InitSharedIdle
    /\ InitAssetIdle
    /\ InitCompiler /\ InitWebpackIdle /\ InitOrderIdle /\ InitTemplateIdle /\ InitStrictIdle /\ InitExternalsIdle /\ InitParseIdle /\ InitGetIdle /\ InitJoinIdle /\ InitOutputIdle /\ InitFactoriesIdle
    /\ InitMainIdle /\ InitRuntimeIdle
    /\ renderCall \in RenderCalls
    /\ rendered = NotRendered

NextRenderModule == RenderModule

SpecRenderModule == InitRenderModule /\ [][NextRenderModule]_vars

(***************************************************************************)
(* The bootstrap and the main template of one chunk                        *)
(***************************************************************************)

InitRenderMain ==
    /\ InitSharedIdle
    /\ InitAssetIdle
    /\ InitCompiler /\ InitWebpackIdle /\ InitOrderIdle /\ InitTemplateIdle /\ InitStrictIdle /\ InitExternalsIdle /\ InitParseIdle /\ InitGetIdle /\ InitJoinIdle /\ InitOutputIdle /\ InitFactoriesIdle /\ InitRenderIdle
    /\ InitRuntimeIdle
    /\ chunk \in Chunks \ {NoChunk}
    /\ bootstrap = NoBootstrap
    /\ main = NoMain

NextRenderMain == ChunkHash \/ RenderMain

SpecRenderMain == InitRenderMain /\ [][NextRenderMain]_vars

(***************************************************************************)
(* The emitted runtime loading the modules of a chunk                      *)
(***************************************************************************)

InitLoad ==
    /\ InitSharedIdle
    /\ InitAssetIdle
    /\ InitCompiler /\ InitWebpackIdle /\ InitOrderIdle /\ InitTemplateIdle /\ InitStrictIdle /\ InitExternalsIdle /\ InitParseIdle /\ InitGetIdle /\ InitJoinIdle /\ InitOutputIdle /\ InitFactoriesIdle
    /\ InitRenderIdle /\ InitMainIdle
    /\ webpackModules \in [ModuleIdsOfChunk -> RequireLists]
    /\ strictModuleExceptionHandling \in BOOLEAN
    /\ throwing \in ModuleIdsOfChunk \cup {NoThrow}
    /\ InitRuntime

NextLoad ==
    \/ RequireFromOutside
    \/ RequireFromFactory
    \/ FactoryReturns
    \/ FactoryThrows

SpecLoad == InitLoad /\ [][NextLoad]_vars

(***************************************************************************)
(* One call of AssetGenerator.generate                                     *)
(***************************************************************************)

InitGenerate ==
    /\ InitSharedIdle
    /\ InitCompiler /\ InitWebpackIdle /\ InitOrderIdle /\ InitTemplateIdle /\ InitStrictIdle /\ InitExternalsIdle /\ InitParseIdle /\ InitGetIdle /\ InitJoinIdle /\ InitOutputIdle /\ InitFactoriesIdle
    /\ InitRenderIdle /\ InitMainIdle /\ InitRuntimeIdle
    /\ generateCall \in GenerateCalls
    /\ generated = NotGenerated

NextGenerate == Generate

SpecGenerate == InitGenerate /\ [][NextGenerate]_vars

(***************************************************************************)
(* One module rendered for the two chunks it belongs to                    *)
(***************************************************************************)

InitShared ==
    /\ InitCompiler /\ InitWebpackIdle /\ InitOrderIdle /\ InitTemplateIdle /\ InitStrictIdle /\ InitExternalsIdle /\ InitParseIdle /\ InitGetIdle /\ InitJoinIdle /\ InitOutputIdle /\ InitFactoriesIdle
    /\ InitRenderIdle /\ InitMainIdle /\ InitRuntimeIdle /\ InitAssetIdle
    /\ sharedModule \in SharedModules
    /\ allModules \in [ChunksOfModule -> OtherModules]
    /\ renders = [i \in ChunksOfModule |-> NotRendered]

NextShared == RenderChunkModules

SpecShared == InitShared /\ [][NextShared]_vars

(***************************************************************************)
(* webpack(options, callback) and the build it starts                      *)
(***************************************************************************)

InitWebpack ==
    /\ InitOrderIdle
    /\ InitTemplateIdle
    /\ InitStrictIdle
    /\ InitExternalsIdle
    /\ InitParseIdle
    /\ InitGetIdle
    /\ InitJoinIdle
    /\ InitCompiler /\ InitOutput
    /\ InitFactoryIdle /\ InitLoadersIdle /\ InitCreate
    /\ InitJavascriptIdle
    /\ webpackCall \in WebpackCalls

NextWebpack ==
    \/ Webpack
    \/ CloseDone
    \/ EndIdleDone
    \/ BeforeRunDone
    \/ RunHookDone
    \/ ReadRecordsDone
    \/ BeforeCompileDone
    \/ MakeDone
    \/ FinishDone
    \/ SealDone
    \/ AfterCompileDone
    \/ DoneNoEmitDone
    \/ EmitHookDone
    \/ MkdirpDone
    \/ \E t \in tasks : StatDone(t)
    \/ \E t \in tasks : ReadDone(t)
    \/ \E t \in tasks : WriteDone(t)
    \/ \E t \in tasks : AssetEmittedDone(t)
    \/ AfterEmitDone
    \/ DoneAdditionalPassDone
    \/ AdditionalPassDone
    \/ EmitRecordsDone
    \/ DoneDone

SpecWebpack == InitWebpack /\ [][NextWebpack]_vars

(***************************************************************************)
(* Builds whose two assets have one target path                            *)
(***************************************************************************)

\* Both file names are emitted, into an empty output directory; no asset is
\* immutable.
InitEmitTwo ==
    /\ InitCompiler /\ InitWebpackIdle /\ InitOrderIdle /\ InitTemplateIdle /\ InitStrictIdle /\ InitExternalsIdle /\ InitParseIdle /\ InitGetIdle /\ InitJoinIdle
    /\ files = Files
    /\ immutable = {}
    /\ disk = [p \in Paths |-> Missing]
    /\ compareBeforeEmit \in BOOLEAN
    /\ InitFactoryIdle /\ InitLoadersIdle /\ InitCreate
    /\ InitJavascriptIdle

\* The runs are started by run(); watch() is not called.
NextEmitTwo ==
    \/ Run
    \/ EndIdleDone
    \/ BeforeRunDone
    \/ RunHookDone
    \/ ReadRecordsDone
    \/ BeforeCompileDone
    \/ MakeDone
    \/ FinishDone
    \/ SealDone
    \/ AfterCompileDone
    \/ DoneNoEmitDone
    \/ EmitHookDone
    \/ MkdirpDone
    \/ \E t \in tasks : StatDone(t)
    \/ \E t \in tasks : ReadDone(t)
    \/ \E t \in tasks : WriteDone(t)
    \/ \E t \in tasks : AssetEmittedDone(t)
    \/ AfterEmitDone
    \/ DoneAdditionalPassDone
    \/ AdditionalPassDone
    \/ EmitRecordsDone
    \/ DoneDone

SpecEmitTwo == InitEmitTwo /\ [][NextEmitTwo]_vars

(***************************************************************************)
(* getParser and getGenerator of one NormalModuleFactory                   *)
(***************************************************************************)

InitGet ==
    /\ InitCompiler /\ InitWebpackIdle /\ InitOrderIdle /\ InitTemplateIdle /\ InitStrictIdle /\ InitExternalsIdle /\ InitParseIdle /\ InitJoinIdle /\ InitOutputIdle
    /\ InitFactoriesIdle
    /\ InitJavascriptIdle
    /\ InitCaches
    /\ gets = <<>>

NextGet ==
    \/ GetParser
    \/ GetGenerator

SpecGet == InitGet /\ [][NextGet]_vars

(***************************************************************************)
(* One parse of a module with import statements                            *)
(***************************************************************************)

InitParse ==
    /\ InitCompiler /\ InitWebpackIdle /\ InitOrderIdle /\ InitTemplateIdle /\ InitStrictIdle /\ InitExternalsIdle /\ InitGetIdle /\ InitJoinIdle
    /\ InitOutputIdle
    /\ InitFactoriesIdle
    /\ InitJavascriptIdle
    /\ program \in Programs
    /\ InitParserState

NextParse ==
    \/ ImportHook
    \/ ImportSpecifierHook
    \/ ImportsDone
    \/ ExpressionHook
    \/ \E d \in DOMAIN moduleDependencies : FactorizeDependency(d)

SpecParse == InitParse /\ [][NextParse]_vars

(***************************************************************************)
(* The factorize tap of ExternalModuleFactoryPlugin, externals an array    *)
(***************************************************************************)

InitExternals ==
    /\ InitCompiler /\ InitWebpackIdle /\ InitOrderIdle /\ InitTemplateIdle /\ InitStrictIdle /\ InitParseIdle /\ InitGetIdle
    /\ InitJoinIdle /\ InitOutputIdle
    /\ InitFactoriesIdle
    /\ InitJavascriptIdle
    /\ externals \in ExternalsArrays
    /\ externalsCall = NoExternalsCall

NextExternals ==
    \/ FactorizeExternals
    \/ \E p \in externalsCall.pending : ExternalCallsBack(p)

SpecExternals == InitExternals /\ [][NextExternals]_vars

(***************************************************************************)
(* renderMain of a chunk of strict and non-strict modules                  *)
(***************************************************************************)

InitStrict ==
    /\ InitCompiler /\ InitWebpackIdle /\ InitOrderIdle /\ InitTemplateIdle /\ InitExternalsIdle /\ InitParseIdle
    /\ InitGetIdle /\ InitJoinIdle /\ InitOutputIdle
    /\ InitFactoriesIdle
    /\ InitJavascriptIdle
    /\ strictChunk \in StrictChunks
    /\ strictMain = NoStrictMain

NextStrict == RenderMainModules

SpecStrict == InitStrict /\ [][NextStrict]_vars

(***************************************************************************)
(* Two builds of one chunk, its modules added in any order                 *)
(***************************************************************************)

InitOrder ==
    /\ InitCompiler /\ InitWebpackIdle /\ InitTemplateIdle /\ InitStrictIdle
    /\ InitExternalsIdle /\ InitParseIdle /\ InitGetIdle /\ InitJoinIdle
    /\ InitOutputIdle
    /\ InitFactoriesIdle
    /\ InitJavascriptIdle
    /\ \E ids \in IdAssignments, other \in OtherSourceTypes :
         moduleTable = [ m \in ModuleIdentifiers |->
                           [id |-> ids[m], javascript |-> m # other] ]
    /\ insertionOrder \in [Builds -> InsertionOrders]
    /\ inlinedEntry \in InlinedEntries
    /\ chunkRenders = [ b \in Builds |-> NotCalled ]
    /\ mainRenders = [ b \in Builds |-> NotCalled ]
    /\ contentHashes = [ b \in Builds |-> NotCalled ]

NextOrder ==
    \E b \in Builds :
       \/ RenderChunk(b)
       \/ RenderMainChunkModules(b)
       \/ ContentHash(b)

SpecOrder == InitOrder /\ [][NextOrder]_vars

(***************************************************************************)
(* Template.getModulesArrayBounds and Template.renderChunkModules          *)
(***************************************************************************)

InitTemplate ==
    /\ InitCompiler /\ InitWebpackIdle /\ InitOrderIdle /\ InitStrictIdle /\ InitExternalsIdle
    /\ InitParseIdle /\ InitGetIdle /\ InitJoinIdle /\ InitOutputIdle
    /\ InitFactoriesIdle
    /\ InitJavascriptIdle
    /\ \E lo \in LowestIds, span \in 0..MaxSpan, order \in ModuleOrders,
          place \in StringIdPlaces, none \in BOOLEAN, sourced \in BOOLEAN :
         \E missing \in SUBSET ({lo + 1, lo + 2} \cap (lo..(lo + span))) :
            /\ chunkModuleList =
                 IF none THEN <<>>
                 ELSE ModuleList((lo..(lo + span)) \ missing, order, place,
                                 sourced)
            /\ removedIds \in SUBSET missing
    /\ arrayBounds = NotCalled
    /\ chunkModulesSource = NotCalled

NextTemplate ==
    \/ GetModulesArrayBounds
    \/ TemplateRenderChunkModules

SpecTemplate == InitTemplate /\ [][NextTemplate]_vars

(***************************************************************************)
(* One join of needCalls, its sub-tasks calling back in every order        *)
(***************************************************************************)

InitJoin ==
    /\ InitCompiler /\ InitWebpackIdle /\ InitOrderIdle /\ InitTemplateIdle /\ InitStrictIdle /\ InitExternalsIdle /\ InitParseIdle /\ InitGetIdle /\ InitOutputIdle
    /\ InitFactoriesIdle
    /\ InitJavascriptIdle
    /\ needed \in 1..MaxTimes
    /\ timesLeft = needed
    /\ completions = <<>>
    /\ continuations = <<>>

NextJoin == SubTaskDone

SpecJoin == InitJoin /\ [][NextJoin]_vars

(***************************************************************************)
(* run() with every step calling back in the end                           *)
(***************************************************************************)

InitRunLoop ==
    /\ InitCompiler /\ InitWebpackIdle /\ InitOrderIdle /\ InitTemplateIdle /\ InitStrictIdle /\ InitExternalsIdle /\ InitParseIdle /\ InitGetIdle /\ InitJoinIdle /\ InitOutputIdle
    /\ InitFactoriesIdle
    /\ InitJavascriptIdle

NextRunLoop ==
    \/ Run
    \/ CalledBack

\* Every hook, cache operation and file-system operation calls back.
SpecRunLoop == InitRunLoop /\ [][NextRunLoop]_vars /\ WF_vars(CalledBack)

(***************************************************************************)
(* Properties of Compiler.run and Compiler.compile                         *)
(***************************************************************************)

HasEv(name) == \E i \in DOMAIN log : log[i].ev = name

EvNames(seq) == [ i \in 1..Len(seq) |-> seq[i].ev ]

IsPrefix(a, b) == Len(a) <= Len(b) /\ SubSeq(b, 1, Len(a)) = a

\* C1: while a run() or watch() is in flight (running is true), a further
\* run() or watch() call is rejected: its callback gets a
\* ConcurrentCompilationError and nothing else changes (the call is not
\* queued, no hook is fired for it, the running flag and the build in flight
\* are untouched); and while running no step starts another run, changes the
\* watch mode or rewrites what the run in flight has done.
C1_ConcurrentCallRejected ==
    [][ /\ (running /\ lastCall' # lastCall)
           => /\ lastCall'.err = ConcurrentCompilationError
              /\ UNCHANGED <<running, watchMode, pc, nRuns, log, cbs, reported,
                             compVars, emitVars>>
        /\ running
           => /\ nRuns' = nRuns
              /\ watchMode' = watchMode
              /\ IsPrefix(log, log')
              /\ (running' \/ Len(cbs') = Len(cbs) + 1) ]_vars

\* A watch() call was rejected while the make hook of a run was in flight.
C1_Witness ==
    /\ running
    /\ pc = "make"
    /\ lastCall = [op |-> "watch", err |-> ConcurrentCompilationError]

RunOrder ==
    <<"cache.endIdle", "beforeRun", "run", "readRecords", "compile()",
      "emitAssets", "emitRecords", "done", "callback", "afterDone">>

RunSteps == { RunOrder[i] : i \in DOMAIN RunOrder }

\* The latest accepted run has called back without any step reporting an
\* error, shouldEmit did not return false, no additional pass was asked for.
PlainRunCompleted ==
    /\ cbs # <<>>
    /\ reported = NoErr
    /\ ~HasEv("shouldEmit=false")
    /\ ~HasEv("needAdditionalPass=true")

\* C2: an accepted run() in which no step reports an error, shouldEmit does
\* not return false and no additional pass is requested performs, exactly
\* once each and in this order: cache.endIdle, beforeRun hook, run hook,
\* readRecords, compile, emitAssets, emitRecords, done hook, the run
\* callback, afterDone hook.
C2_RunStepOrder ==
    PlainRunCompleted
    => /\ EvNames(SelectSeq(log, LAMBDA e : e.ev \in RunSteps)) = RunOrder
       /\ Len(cbs) = 1

\* Such a run has completed, its records emitted.
C2_Witness == PlainRunCompleted /\ HasEv("emitRecords") /\ ~running

CleanupOrder == <<"cache.beginIdle", "failed", "callback", "afterDone">>

\* The step that reports each error.
FailingStep(err) ==
    CASE err = "E_endIdle" -> "cache.endIdle"
      [] err = "E_beforeRun" -> "beforeRun"
      [] err = "E_run" -> "run"
      [] err \in {"E_readRecords", "E_parseRecords"} -> "readRecords"
      [] err = "E_beforeCompile" -> "beforeCompile"
      [] err = "E_make" -> "make"
      [] err = "E_finish" -> "finish"
      [] err = "E_seal" -> "seal"
      [] err = "E_afterCompile" -> "afterCompile"
      [] err = "E_emit" -> "emit"
      [] err = "E_mkdirp" -> "mkdirp"
      [] err \in {"E_writeFile", "E_assetEmitted"} -> "emitFiles"
      [] err = "E_afterEmit" -> "afterEmit"
      [] err \in {"E_emitRecordsMkdirp", "E_emitRecords"} -> "emitRecords"
      [] err = "E_done" -> "done"
      [] err = "E_additionalPass" -> "additionalPass"
      [] OTHER -> "?"

\* What a failed run looks like: the step that reported the error is the
\* last step started, only the cleanup follows it, and the callback was
\* called once, with that error and no Stats.
FailedRun ==
    /\ cbs = << [err |-> reported, stats |-> 0] >>
    /\ Len(log) >= 5
    /\ EvNames(SubSeq(log, Len(log) - 3, Len(log))) = CleanupOrder
    /\ log[Len(log) - 4].ev = FailingStep(reported)
    /\ \A i \in 1..(Len(log) - 4) :
         log[i].ev \notin { CleanupOrder[k] : k \in DOMAIN CleanupOrder }

\* C3: when a step of run()/compile() reports a non-null error, no later
\* step of the sequence is started and the run callback receives exactly
\* that error; only the cleanup happens (cache.beginIdle, running reset to
\* false, failed hook, afterDone hook), and nothing is added to the run
\* afterwards.
C3_ErrorShortCircuits ==
    [][ reported' # NoErr
        => /\ FailedRun'
           /\ reported = NoErr => (~running' /\ pc' = "idle")
           /\ (reported # NoErr /\ nRuns' = nRuns)
              => (log' = log /\ cbs' = cbs /\ reported' = reported) ]_vars

\* The seal of a Compilation reported an error and the run has called back.
C3_Witness == reported = "E_seal" /\ cbs # <<>> /\ ~running

\* C4 (as the code has it): an accepted run() in which no step reports an
\* error fires the done hook, carrying the Stats of its last Compilation,
\* right before the cleanup and its callback, which gets the same Stats (also when shouldEmit
\* returns false).  A run that fails with an error fires the failed hook and
\* its callback gets no Stats; it has fired the done hook only when the error
\* came from a done hook or after the done hook that precedes an additional
\* pass.
C4_DoneOnSuccessFailedOnError ==
    cbs # <<>>
    => /\ reported = NoErr
          => /\ Len(log) >= 4
             /\ log[Len(log) - 3] = Ev("done", compilation)
             /\ log[Len(log) - 1] = Ev("callback", compilation)
             /\ compilation > 0
             /\ cbs = << [err |-> NoErr, stats |-> compilation] >>
       /\ reported # NoErr
          => /\ HasEv("failed")
             /\ cbs[1].stats = 0
             /\ (reported # "E_done" /\ ~HasEv("needAdditionalPass=true"))
                => ~HasEv("done")

\* A run has called back without error, its done hook having fired.
C4_Witness == cbs # <<>> /\ reported = NoErr /\ HasEv("done") /\ pc = "idle"

\* C4 as stated: every accepted run() fires the done hook, carrying a Stats
\* object, before the run completes, also when it fails with an error.
C4_DoneAlwaysFires ==
    cbs # <<>>
    => \E i, j \in DOMAIN log :
         i < j /\ log[i].ev = "done" /\ log[i].c > 0 /\ log[j].ev = "callback"

StageOrder ==
    <<"beforeCompile", "compile", "thisCompilation", "compilation", "make",
      "finish", "seal", "afterCompile">>

Stages == { StageOrder[i] : i \in DOMAIN StageOrder }

\* The stages that are handed the Compilation.
CompilationStages == Stages \ {"beforeCompile", "compile"}

\* Where the run in flight called compile().
CompileCalls == { i \in DOMAIN log : log[i].ev = "compile()" }

Least(set) == CHOOSE i \in set : \A k \in set : i <= k

\* The part of the log that belongs to the compile() call at `i`, one of
\* `calls`.
SegmentOf(calls, i) ==
    LET later == { j \in calls : j > i } IN
    SubSeq(log, i, IF later = {} THEN Len(log) ELSE Least(later) - 1)

\* The compile() call at `i` of the log, as an index of `compiles`.
CallOf(calls, i) == Len(compiles) - Cardinality({ j \in calls : j >= i }) + 1

\* C5: within one compile() the stages occur in the strict order
\* beforeCompile, compile, thisCompilation, compilation, make, finish, seal,
\* afterCompile, each at most once and all for the one Compilation of that
\* call; every compile() call creates new module factories and (once
\* beforeCompile has passed) a new Compilation.
C5_CompileStagesAndFreshObjects ==
    LET calls == CompileCalls IN
    /\ \A n \in 1..(IF calls = {} THEN Len(log) ELSE Least(calls) - 1) :
         log[n].ev \notin Stages
    /\ \A i \in calls :
         LET seg == SegmentOf(calls, i)
             k == CallOf(calls, i)
         IN /\ k \in DOMAIN compiles
            /\ IsPrefix(EvNames(SelectSeq(seg, LAMBDA e : e.ev \in Stages)),
                        StageOrder)
            /\ \A n \in DOMAIN seg :
                 seg[n].ev \in CompilationStages
                 => (seg[n].c = compiles[k].comp /\ seg[n].c > 0)
    /\ \A i \in DOMAIN compiles :
         /\ compiles[i].params.normalModuleFactory
              # compiles[i].params.contextModuleFactory
         /\ \A j \in DOMAIN compiles :
              i # j
              => /\ { compiles[i].params.normalModuleFactory,
                      compiles[i].params.contextModuleFactory }
                    \cap { compiles[j].params.normalModuleFactory,
                           compiles[j].params.contextModuleFactory } = {}
                 /\ compiles[i].comp > 0 => compiles[i].comp # compiles[j].comp

\* The second compile() of one run (an additional pass) has sealed its
\* Compilation and waits for the afterCompile hook.
C5_Witness ==
    /\ pc = "afterCompile"
    /\ Len(compiles) = 2
    /\ compiles[2].comp = 2
    /\ Cardinality(CompileCalls) = 2

(***************************************************************************)
(* Properties of Compiler.emitAssets                                       *)
(***************************************************************************)

\* emitFiles has run for the latest Compilation.
EmitFilesRan == compilation > 0 /\ join.c = compilation

\* The asset iterations of the latest emitFiles have all called back.
EmitFilesCompleted == EmitFilesRan /\ join.called /\ join.left = 0

Calls(f) == { fsOps[f][i] : i \in DOMAIN fsOps[f] }

\* `f` holds the very Source object the previous, completed emit of this
\* Compiler emitted for it.
SameSourceAgain(f) == assets[f] # NoSource /\ prevEmit[f] = assets[f]

Compares(t) == compareBeforeEmit /\ t.file \notin immutable /\ t.gen = 0

\* What the iteration `t` has seen justifies its write: no regular file, or
\* a size mismatch (the file was not read), or a read error, or other bytes.
WriteJustified(t) ==
    LET content == getContent(t.source) IN
    \/ t.stat = "nofile" /\ t.read = "none"
    \/ t.stat = "file" /\ t.size # Len(content) /\ t.read = "none"
    \/ t.stat = "file" /\ t.size = Len(content) /\ t.read = "error"
    \/ /\ t.stat = "file" /\ t.size = Len(content) /\ t.read = "content"
       /\ t.existingContent # content

ComparingIterations ==
    \A t \in tasks :
      Compares(t)
      => /\ t.c = compilation => Head(fsOps[t.file]) = "stat"
         /\ t.pc = "readFile"
            => (t.stat = "file" /\ t.size = Len(getContent(t.source)))
         /\ t.pc \in {"writeFile", "assetEmitted"} => WriteJustified(t)

\* The iteration `t` ends in this step without having called writeFile.
EndsUnwritten(t) ==
    /\ t.pc \in {"stat", "readFile"}
    /\ ~\E u \in tasks' : u.c = t.c /\ u.file = t.file

\* C7: with compareBeforeEmit on, for a non-immutable asset whose target path
\* was not yet written by this Compiler, the write is skipped exactly when a
\* regular file is at the path, its size equals the content length and its
\* bytes equal the content; a size mismatch causes a write without reading
\* the file, and no regular file, a read error or a byte difference cause a
\* write.
C7_CompareBeforeEmit ==
    [][ /\ ComparingIterations'
        /\ \A t \in tasks :
             (Compares(t) /\ EndsUnwritten(t))
             => /\ t.pc = "readFile"
                /\ IsFile(targetPath(t.file))
                /\ Len(disk[targetPath(t.file)]) = Len(getContent(t.source))
                /\ disk[targetPath(t.file)] = getContent(t.source)
                /\ disk' = disk
                /\ t.c = compilation
                   => (fsOps'[t.file] = <<"stat", "readFile">>
                       /\ t.file \notin emittedAssets') ]_vars

\* The first emit found the file there with the bytes of the asset and left
\* it alone.
C7_Witness ==
    /\ nCompile = 1
    /\ EmitFilesCompleted
    /\ compareBeforeEmit
    /\ \E f \in files \ immutable :
         /\ fsOps[f] = <<"stat", "readFile">>
         /\ f \notin emittedAssets
         /\ disk[targetPath(f)] = getContent(assets[f])

(***************************************************************************)
(* Properties of the loaders NormalModuleFactory gives a module            *)
(***************************************************************************)

\* The inline loaders as written, each resolved.
ResolvedWritten(l) ==
    CASE l = <<"a">> -> [loader |-> <<"/", "a">>, options |-> <<>>]
      [] l = <<"b">> -> [loader |-> <<"/", "b">>, options |-> <<>>]
      [] l = <<"a", "?", "o">> -> [loader |-> <<"/", "a">>, options |-> <<"o">>]

InlineWritten ==
    [ i \in 1..Len(written.loaders) |-> ResolvedWritten(written.loaders[i]) ]

\* The rule-matched loaders of one type, each resolved, in rule order.
Matched(type) ==
    LET rs == SelectSeq(matched, LAMBDA r : r.type = type) IN
    [ i \in 1..Len(rs) |->
        [loader |-> <<"/">> \o rs[i].value.loader, options |-> <<>>] ]

\* The modules the resolve tap has filled createData for.
Created ==
    { created[i] : i \in { k \in DOMAIN created : created[k].status = "created" } }

AllTypesMatched ==
    \A type \in {"use", "use-post", "use-pre"} : Matched(type) # <<>>

\* C8: a request that starts with `!!` gets none of the rule-matched loaders
\* (no pre, no normal, no post): the loaders of the module are exactly the
\* inline loaders, in the order written.
C8_DoubleBangInlineOnly ==
    written.prefix = <<"!", "!">>
    => \A m \in Created : m.loaders = InlineWritten

\* `!!a!b!...` was resolved while the rules matched loaders of every type.
C8_Witness ==
    /\ written.prefix = <<"!", "!">>
    /\ written.loaders = << <<"a">>, <<"b">> >>
    /\ AllTypesMatched
    /\ Created # {}

\* C9 (as the code has it): a request that starts with `-!` suppresses the
\* rule-matched pre loaders and the rule-matched normal loaders; the
\* rule-matched post loaders are still applied, before the inline loaders.
C9_MinusBangNoPreNoNormal ==
    written.prefix = <<"-", "!">>
    => \A m \in Created : m.loaders = Matched("use-post") \o InlineWritten

\* `-!b!a!...` was resolved while the rules matched loaders of every type.
C9_Witness ==
    /\ written.prefix = <<"-", "!">>
    /\ written.loaders = << <<"b">>, <<"a">> >>
    /\ AllTypesMatched
    /\ Created # {}

\* C9 as stated: `-!` suppresses only the pre loaders: the normal and the
\* post loaders are applied, with the inline loaders.
C9_MinusBangOnlyNoPre ==
    written.prefix = <<"-", "!">>
    => \A m \in Created :
         m.loaders = Matched("use-post")
                     \o (IF written.matchResource = <<>>
                         THEN InlineWritten \o Matched("use")
                         ELSE Matched("use") \o InlineWritten)

\* C10 (as the code has it): a request that starts with a single `!`
\* suppresses the rule-matched normal loaders only; the rule-matched post
\* loaders and pre loaders are still applied, around the inline loaders.
C10_BangNoNormal ==
    written.prefix = <<"!">>
    => \A m \in Created :
         m.loaders = Matched("use-post") \o InlineWritten \o Matched("use-pre")

\* `!a?o!...` was resolved while the rules matched loaders of every type.
C10_Witness ==
    /\ written.prefix = <<"!">>
    /\ written.loaders = << <<"a", "?", "o">> >>
    /\ AllTypesMatched
    /\ Created # {}

\* C10 as stated: a single `!` suppresses the normal and the pre loaders;
\* the post loaders are applied, with the inline loaders.
C10_BangNoNormalNoPre ==
    written.prefix = <<"!">>
    => \A m \in Created : m.loaders = Matched("use-post") \o InlineWritten

\* The rule-matched loaders of one type that the prefix of the request, as
\* written, lets through.
Applied(type) ==
    IF \/ written.prefix = <<>>
       \/ written.prefix = <<"!">> /\ type # "use"
       \/ written.prefix = <<"-", "!">> /\ type = "use-post"
    THEN Matched(type)
    ELSE <<>>

IdentOf(l) ==
    IF l.options = <<>> THEN l.loader ELSE l.loader \o <<"?">> \o l.options

\* The resource as resolved: a path, or the literal when it is empty or a
\* query only.
ResourceWritten ==
    IF written.resource = <<>> \/ Head(written.resource) = "?"
    THEN written.resource
    ELSE <<"/">> \o written.resource

ExpectedLoaders ==
    Applied("use-post")
    \o (IF written.matchResource = <<>>
        THEN InlineWritten \o Applied("use")
        ELSE Applied("use") \o InlineWritten)
    \o Applied("use-pre")

\* C11: the loader list of a created module starts with the post loaders and
\* ends with the pre loaders; between them the inline loaders precede the
\* rule-matched normal loaders when the request has no match-resource and
\* follow them when it has one.  The request identifier of the module is the
\* ident of each loader in that order, each followed by `!`, then the
\* resource, whatever the order in which the loader resolutions completed.
C11_LoaderOrderAndIdentifier ==
    \A m \in Created :
      /\ m.loaders = ExpectedLoaders
      /\ m.request =
           JoinBang([ i \in 1..Len(ExpectedLoaders) |-> IdentOf(ExpectedLoaders[i]) ])
           \o ResourceWritten

\* `m!=!b!a!f` was resolved while the rules matched loaders of every type.
C11_Witness ==
    /\ written.matchResource # <<>>
    /\ written.prefix = <<>>
    /\ written.loaders = << <<"b">>, <<"a">> >>
    /\ written.resource = <<"f">>
    /\ AllTypesMatched
    /\ Created # {}

(***************************************************************************)
(* Properties of resolveRequestArray                                       *)
(***************************************************************************)

\* A bare loader name: no `/` in it and no `-loader` at its end.
BareName(name) ==
    (\A i \in DOMAIN name : name[i] # "/") /\ name[Len(name)] # "-loader"

\* C12: when a loader name with no `/` that does not end in `-loader` fails
\* to resolve, the resolution is retried with `-loader` appended before the
\* failure is reported; the request still fails with the original error, and
\* the message of that error is rewritten with the guidance text exactly
\* when the `-loader` variant resolves.  A loader that fails and is not
\* retried (it has a `/` or ends in `-loader`) is reported with the
\* unmodified error, and no retry is made for it.
C12_LoaderSuffixRetry ==
    /\ (rraDone.called /\ rraDone.err # NoError)
       => LET i == rraDone.err.item
              name == rraDone.err.request
          IN /\ i \in DOMAIN rraArray
             /\ name = rraArray[i].loader
             /\ name \notin resolvable
             /\ rraDone.results = <<>>
             /\ BareName(name)
                => /\ <<i, name \o <<"-loader">> >> \in rraAsked
                   /\ rraDone.err.rewritten
                      <=> (name \o <<"-loader">>) \in resolvable
             /\ ~BareName(name)
                => /\ <<i, name \o <<"-loader">> >> \notin rraAsked
                   /\ ~rraDone.err.rewritten
    /\ \A i \in DOMAIN rraItems :
         /\ rraItems[i] = "failed" => rraArray[i].loader \notin resolvable
         /\ <<i, rraArray[i].loader \o <<"-loader">> >> \in rraAsked
            => (BareName(rraArray[i].loader)
                /\ rraArray[i].loader \notin resolvable)

\* `a` failed, `a-loader` resolved: the error reported carries the guidance.
C12_Witness ==
    /\ rraDone.called
    /\ rraDone.err.item # 0
    /\ rraDone.err.request = <<"a">>
    /\ rraDone.err.rewritten
    /\ \E j \in DOMAIN rraArray : rraArray[j].loader = <<"/", "a">>

(***************************************************************************)
(* Properties of create()                                                  *)
(***************************************************************************)

\* The call `j` ended in a successful factorization that the cache accepts,
\* and `d` is one of its dependencies.
CachedBy(j, d) ==
    /\ j \in DOMAIN creates
    /\ creates[j].pc = "done"
    /\ ~creates[j].hit
    /\ ~creates[j].err
    /\ creates[j].factory.unsafeCache
    /\ creates[j].result.module \in creates[j].factory.cachePredicate
    /\ creates[j].result = [module |-> creates[j].result.module, by |-> j]
    /\ \E k \in DOMAIN creates[j].dependencies : creates[j].dependencies[k] = d

\* A call of create() has just been made.
Called == Len(creates') = Len(creates) + 1

\* C13: with unsafeCache enabled, create() whose first dependency was the
\* subject of an earlier successful factorization (a module was produced
\* and the cache predicate accepted it) returns the result of such a
\* factorization and calls none of the hooks beforeResolve, factorize and
\* resolve; a failed or ignored factorization is never cached; a factory
\* with unsafeCache disabled never answers from the cache, always runs the
\* hooks, and nothing it produced is ever in the cache.
C13_UnsafeCache ==
    /\ [](\A i \in DOMAIN creates :
            LET c == creates[i] IN
            /\ c.hit
               => /\ c.factory.unsafeCache
                  /\ c.hooks = {}
                  /\ c.pc = "done" /\ ~c.err
                  /\ c.result.by < i
                  /\ CachedBy(c.result.by, c.dependencies[1])
            /\ ~c.hit => "beforeResolve" \in c.hooks
            /\ ~c.factory.unsafeCache => ~c.hit)
    /\ [](\A d \in Dependencies :
            dependencyCache[d] # NoEntry
            => /\ dependencyCache[d].module # NoModule
               /\ CachedBy(dependencyCache[d].by, d))
    /\ [][Called
          => LET c == creates'[Len(creates')] IN
             /\ dependencyCache' = dependencyCache
             /\ (c.factory.unsafeCache
                 /\ \E j \in DOMAIN creates : CachedBy(j, c.dependencies[1]))
                => c.hit]_vars

\* A factory with the cache answered with what an earlier call produced for
\* its second dependency.
C13_Witness ==
    /\ Len(creates) = 2
    /\ creates[1].factory.cachePredicate = {"m1"}
    /\ creates[2].hit
    /\ creates[2].dependencies[1] # creates[1].dependencies[1]
    /\ creates[2].result = [module |-> "m1", by |-> 1]

(***************************************************************************)
(* Properties of the factorize tap                                         *)
(***************************************************************************)

\* The resolve tap got as far as filling createData: nothing failed to
\* resolve and the resource was not ignored.
FilledCreateData ==
    /\ nf.pending = {}
    /\ nf.stage = "rules"
    /\ created # <<>>
    /\ created[Len(created)].status \in {"created", "thrown"}

\* C14 (as the code has it): a missing parser or generator for the type of
\* a request is raised while that request is being factorized: getParser or
\* getGenerator throws out of the resolve tap when it fills createData,
\* after the loaders and the resource have resolved; the parser is looked up
\* first.  The factorize tap is then never called back.  Nothing is raised
\* when both are registered.
C14_MissingParserRaisedWhileFactorizing ==
    /\ FilledCreateData
       => LET r == created[Len(created)] IN
          /\ ~registered.parser
             => r.status = "thrown" /\ r.err = "No parser registered for"
          /\ (registered.parser /\ ~registered.generator)
             => r.status = "thrown" /\ r.err = "No generator registered for"
          /\ (registered.parser /\ registered.generator)
             => r.status = "created"
    /\ \A i \in DOMAIN created :
         created[i].status = "thrown"
         => /\ i = Len(created)
            /\ FilledCreateData
            /\ factorized.pc = "resolve"

\* C14 (as stated): a missing parser or generator is raised at setup time,
\* so that it is never raised while a request is being factorized.
C14_NeverRaisedWhileFactorizing ==
    \A i \in DOMAIN created : created[i].status # "thrown"

\* The generator of the type is missing: the resolve tap threw after it had
\* resolved an inline loader and the resource.
C14_Witness ==
    /\ created # <<>>
    /\ created[Len(created)].err = "No generator registered for"
    /\ nf.loaders # <<>>
    /\ nf.resource = <<"/", "f">>

\* The createModule hook was called and supplied no module.
NoModuleSupplied ==
    /\ factorized.pc = "done"
    /\ factorized.afterResolve = "undefined"
    /\ factorized.createModule = NoModule

\* C15 (as the code has it): if the request of a dependency, as it was
\* handed to the factory (resolveData.request), is empty and the
\* createModule hook supplies no module, the factorization completes with
\* the error `Empty dependency (no request)` and produces no module; with
\* any other request it produces a NormalModule, also when the request
\* resolves to an empty one.
C15_EmptyRequestIsFatal ==
    NoModuleSupplied
    => IF request = <<>>
       THEN /\ factorized.err = "Empty dependency (no request)"
            /\ factorized.module = NoModule
       ELSE /\ factorized.err = NoErr
            /\ factorized.module = "NormalModule"

\* C15 (as stated): if the resolved request (createData.request) is empty
\* and the createModule hook supplies no module, the factorization completes
\* with the error `Empty dependency (no request)` and produces no module.
C15_EmptyResolvedRequestIsFatal ==
    (NoModuleSupplied /\ created[Len(created)].request = <<>>)
    => /\ factorized.err = "Empty dependency (no request)"
       /\ factorized.module = NoModule

\* The empty request got through the resolve tap, which took the resource
\* literally, and ended in the error.
C15_Witness ==
    /\ request = <<>>
    /\ NoModuleSupplied
    /\ created[Len(created)].status = "created"
    /\ factorized.err = "Empty dependency (no request)"

(***************************************************************************)
(* Properties of renderModule                                              *)
(***************************************************************************)

\* The step that throws is one the call gets to.
ThrowsWhileRendering ==
    \/ renderCall.throws = "codeGenerationResults"
    \/ /\ renderCall.moduleSource
       /\ \/ renderCall.throws \in {"renderModuleContent", "renderModulePackage"}
          \/ /\ renderCall.throws = "renderModuleContainer"
             /\ renderCall.factory # "false"

\* C17: any error thrown while one module is rendered (by the hooks
\* renderModuleContent, renderModuleContainer, renderModulePackage, or by
\* reading its code generation result) is tagged with that module and
\* thrown on: the call neither returns a source nor skips the module.
C17_RenderErrorTagged ==
    (rendered # NotRendered /\ ThrowsWhileRendering)
    => /\ rendered.kind = "thrown"
       /\ rendered.from = renderCall.throws
       /\ rendered.module = renderCall.module

\* The container hook threw an error that carried another module's tag.
C17_Witness ==
    /\ rendered # NotRendered
    /\ rendered.kind = "thrown"
    /\ renderCall.throws = "renderModuleContainer"
    /\ renderCall.module = "m1"
    /\ renderCall.tagged = "m2"

(***************************************************************************)
(* Properties of renderBootstrap and renderMain                            *)
(***************************************************************************)

\* The chunk has none of the four requirements that forbid inlining.
NoneOfTheFour ==
    /\ "moduleFactories" \notin chunk.requirements
    /\ "moduleCache" \notin chunk.requirements
    /\ "interceptModuleExecution" \notin chunk.requirements
    /\ "returnExportsFromRuntime" \notin chunk.requirements

\* No entry module is referenced by a module, none requires `module` or
\* `exports`.
EntriesInlinable ==
    \A i \in DOMAIN chunk.entries :
        /\ ~chunk.entries[i].referenced
        /\ "module" \notin chunk.entries[i].requirements
        /\ "exports" \notin chunk.entries[i].requirements

C20_RequireCachesBeforeExecution ==
    /\ [](\A i \in DOMAIN stack :
            /\ webpackModuleCache[stack[i].id].cached
            /\ ~webpackModuleCache[stack[i].id].l
            /\ \A j \in DOMAIN stack : stack[j].id = stack[i].id => j = i)
    /\ [](Len(stack) <= Cardinality(ModuleIdsOfChunk))
    /\ [](\A moduleId \in ModuleIdsOfChunk :
            /\ webpackModuleCache[moduleId].l
               => webpackModuleCache[moduleId].cached
            /\ webpackModuleCache[moduleId].cached => executions[moduleId] >= 1
            /\ (~strictModuleExceptionHandling \/ throwing = NoThrow)
               => executions[moduleId] <= 1)
    /\ [](returned.cyclic => ~returned.complete)
    /\ [][\A moduleId \in ModuleIdsOfChunk :
            /\ executions'[moduleId] # executions[moduleId]
               => /\ ~webpackModuleCache[moduleId].cached
                  /\ webpackModuleCache'[moduleId].cached
                  /\ stack'[Len(stack')].id = moduleId
            /\ (webpackModuleCache[moduleId].cached
                /\ returned' # returned /\ returned'.id = moduleId)
               => /\ executions' = executions
                  /\ webpackModuleCache'[moduleId].cached
                  /\ returned'.complete = webpackModuleCache'[moduleId].l]_vars

\* The factory of the module 1 required the module 2, whose factory
\* required the module 1 back and got its exports before they were complete,
\* while both factories are in execution, each started once.
C20_Witness ==
    /\ webpackModules[1] = << 2 >>
    /\ webpackModules[2] = << 1, 2 >>
    /\ Len(stack) = 2 /\ stack[1].id = 1 /\ stack[2].id = 2
    /\ returned = [id |-> 1, complete |-> FALSE, cyclic |-> TRUE]
    /\ executions = [moduleId \in ModuleIdsOfChunk |-> 1]

\* A call __webpack_require__(moduleId) is issued in this step.
Requires(moduleId) ==
    \/ /\ stack = <<>>
       /\ moduleId \notin required
       /\ required' = required \cup {moduleId}
    \/ /\ stack # <<>>
       /\ stack[Len(stack)].next <= Len(webpackModules[stack[Len(stack)].id])
       /\ webpackModules[stack[Len(stack)].id][stack[Len(stack)].next]
            = moduleId
       /\ Len(stack') >= Len(stack)
       /\ stack' # stack

\* The factory of the throwing module throws in this step.
Throws ==
    /\ stack # <<>>
    /\ stack[Len(stack)].id = throwing
    /\ stack' = <<>>

\* The factory of the throwing module has thrown and is not in execution.
HasThrown ==
    /\ throwing # NoThrow
    /\ executions[throwing] >= 1
    /\ throwing \notin StackIds

\* C21: with strictModuleExceptionHandling a factory that throws leaves its
\* module out of the module cache, and a later require of that module
\* executes the factory again; without it the module that threw stays in
\* the cache, not marked loaded, and a later require returns its exports
\* without executing the factory again.
C21_ThrowEvictsOnlyWhenStrict ==
    /\ [](HasThrown =>
            IF strictModuleExceptionHandling
            THEN ~webpackModuleCache[throwing].cached
            ELSE /\ webpackModuleCache[throwing].cached
                 /\ ~webpackModuleCache[throwing].l
                 /\ executions[throwing] = 1)
    /\ [][Throws =>
            IF strictModuleExceptionHandling
            THEN ~webpackModuleCache'[throwing].cached
            ELSE webpackModuleCache'[throwing]
                   = [cached |-> TRUE, l |-> FALSE]]_vars
    /\ [][(HasThrown /\ Requires(throwing)) =>
            IF strictModuleExceptionHandling
            THEN /\ executions'[throwing] = executions[throwing] + 1
                 /\ stack'[Len(stack')].id = throwing
            ELSE /\ executions' = executions
                 /\ returned' = [id |-> throwing, complete |-> FALSE,
                                 cyclic |-> FALSE]]_vars

\* With strictModuleExceptionHandling the factory of the module 1 threw,
\* was executed again by a later require, and threw again.
C21_Witness ==
    /\ strictModuleExceptionHandling
    /\ throwing = 1
    /\ executions[1] = 2
    /\ stack = <<>>
    /\ ~webpackModuleCache[1].cached

(***************************************************************************)
(* Properties of AssetGenerator.generate                                   *)
(***************************************************************************)

\* generate was called for the javascript code of a module that is no data
\* url, and returned.
GeneratedResource ==
    /\ generated.pc = "returned"
    /\ generateCall.type = "javascript"
    /\ ~generateCall.dataUrl

\* C22 as stated: for a module of type asset/resource (no data url) and the
\* output type javascript, generate emits code that only exports the public
\* path concatenated with the url, and adds nothing but the public path to
\* the runtime requirements.
C22_OnlyPublicPathAdded ==
    GeneratedResource =>
      /\ generated.source = exportsUrl(generateCall.url)
      /\ generated.runtimeRequirements \ generateCall.runtimeRequirements
           \subseteq {"publicPath"}

\* C22: for a module of type asset/resource (no data url) and the output
\* type javascript, generate emits code that only exports the public path
\* concatenated with the url, and adds the module object and the public path,
\* and nothing else, to the runtime requirements.
C22_ModuleAndPublicPathAdded ==
    GeneratedResource =>
      /\ generated.source =
           << "module", ".exports = ", "publicPath", " + ",
              [json |-> generateCall.url], ";" >>
      /\ generated.runtimeRequirements =
           generateCall.runtimeRequirements \cup {"module", "publicPath"}

\* The code of a resource was generated with no runtime requirement
\* collected before: the module object and the public path are required now.
C22_Witness ==
    /\ GeneratedResource
    /\ generateCall.runtimeRequirements = {}
    /\ generated.runtimeRequirements = {"module", "publicPath"}

(***************************************************************************)
(* Properties of a module rendered for two chunks                          *)
(***************************************************************************)

\* Both chunks of the shared module have been rendered.
BothRendered == \A i \in ChunksOfModule : renders[i] # NotRendered

\* The "use strict" directive of a rendered module left out
WithoutUseStrict(r) ==
    IF r.kind = "source" THEN [r EXCEPT !.useStrict = FALSE] ELSE r

C24_WebpackRunsClosesCallsBack ==
    /\ [](webpackCall.pc = "returned" =>
            IF ~webpackCall.callback
            THEN /\ nRuns = 0 /\ ~running /\ pc = "idle"
                 /\ lastCall.op = "none"
                 /\ webpackCall.called = <<>>
            ELSE webpackCall.watch \/
                 /\ nRuns = 1
                 /\ lastCall = [op |-> "run", err |-> NoErr]
                 /\ Len(webpackCall.called) <= 1
                 /\ webpackCall.closed <=> Len(webpackCall.called) = 1
                 /\ webpackCall.closed =>
                      /\ Len(cbs) = 1 /\ ~running
                      /\ webpackCall.called[1].stats = cbs[1].stats
                      /\ webpackCall.called[1].err =
                           IF cbs[1].err # NoErr THEN cbs[1].err
                           ELSE webpackCall.err2)
    /\ [][webpackCall'.called # webpackCall.called =>
            /\ Len(cbs) = 1 /\ ~running
            /\ webpackCall'.closed /\ ~webpackCall.closed]_vars

\* The run failed and close reported an error too: the callback got the
\* error of the run.
C24_Witness ==
    /\ webpackCall.callback /\ ~webpackCall.watch
    /\ Len(webpackCall.called) = 1
    /\ cbs[1].err # NoErr
    /\ webpackCall.err2 = "E_shutdown"
    /\ webpackCall.called[1].err = cbs[1].err

\* The build succeeded and close reported no error: the callback got the
\* stats of the run and no error.
C24_WitnessSucceeded ==
    /\ webpackCall.callback /\ ~webpackCall.watch
    /\ Len(webpackCall.called) = 1
    /\ webpackCall.called[1].err = NoErr
    /\ webpackCall.called[1].stats # 0

(***************************************************************************)
(* Properties of the callback of run()                                     *)
(***************************************************************************)

\* How often the run in flight (or the last run) invoked the user's callback,
\* by the log.
CallbackEvents ==
    Cardinality({ i \in DOMAIN log : log[i].ev = "callback" })

\* C25: each accepted run() invokes its callback exactly once: not while it
\* is running, once when it has completed, and never a second time, with an
\* error and no stats or with no error and the stats, whatever the hooks,
\* shouldEmit, the emit and the additional passes did; a rejected run()
\* invokes its callback with the concurrency error and leaves the run in
\* flight and its callback alone.
C25_CallbackExactlyOnce ==
    /\ [](~watchMode =>
            /\ CallbackEvents = Len(cbs)
            /\ running => cbs = <<>>
            /\ (~running /\ nRuns > 0) =>
                 /\ Len(cbs) = 1
                 /\ cbs[1].err # NoErr <=> cbs[1].stats = 0)
    /\ [][(nRuns' # nRuns) =>
            (~running /\ running' /\ cbs' = <<>> /\ lastCall'.err = NoErr)]_vars
    /\ [][(cbs' # cbs /\ cbs' # <<>>) =>
            (running /\ ~running' /\ cbs = <<>> /\ Len(cbs') = 1)]_vars
    /\ [][(lastCall' # lastCall /\ lastCall'.op = "run"
           /\ lastCall'.err # NoErr) =>
            /\ lastCall'.err = ConcurrentCompilationError
            /\ running
            /\ UNCHANGED <<running, pc, log, cbs, nRuns>>]_vars

\* A run that went through an additional pass has completed without error
\* and invoked its callback once.
C25_Witness ==
    /\ ~running /\ ~watchMode
    /\ nRuns = 1 /\ nCompile = 2
    /\ Len(cbs) = 1
    /\ cbs[1].err = NoErr /\ cbs[1].stats # 0

(***************************************************************************)
(* Properties of run() completing                                          *)
(***************************************************************************)

\* C26 as stated: if every hook, cache operation and file-system operation
\* calls back in the end, every accepted run() invokes its callback and sets
\* running to false in the end, additional passes or not.
C26_RunCompletes ==
    running ~> (~running /\ Len(cbs) = 1)

\* C26: if every hook, cache operation and file-system operation calls back
\* in the end, and the needAdditionalPass hook asks for another pass only
\* finitely often, every accepted run() invokes its callback and sets
\* running to false in the end.
C26_RunCompletesUnlessPassesGoOn ==
    (<>[](pc # "doneAdditionalPass"))
      => (running ~> (~running /\ Len(cbs) = 1))

\* A run has completed without error after an additional pass.
C26_Witness ==
    /\ ~running
    /\ nRuns = 1 /\ nCompile >= 2
    /\ Len(cbs) = 1 /\ cbs[1].err = NoErr

(***************************************************************************)
(* Properties of the running flag                                          *)
(***************************************************************************)

\* C27: running is true from the moment a run() is accepted until its final
\* callback stage, and false already when the user's callback is invoked,
\* after a success as after a failure, so that a run() issued from inside
\* the callback is accepted; no completed run leaves running true.
C27_RunningFalseAtCallback ==
    /\ [](~watchMode => (running <=> pc # "idle"))
    /\ [][(running /\ ~running') => lastCall' = lastCall]_vars
    /\ [][(running /\ nRuns' # nRuns) =>
            /\ running' /\ pc' = "endIdle"
            /\ nRuns' = nRuns + 1
            /\ lastCall' = [op |-> "run", err |-> NoErr]]_vars
    /\ [][(lastCall' # lastCall /\ lastCall'.err # NoErr) =>
            (running /\ running')]_vars

\* The callback of a run that failed has called run() again, and the call
\* was accepted.
C27_Witness ==
    /\ running /\ nRuns = 2 /\ pc = "endIdle"
    /\ lastCall = [op |-> "run", err |-> NoErr]
    /\ log[1] = Ev("callback", 0)
    /\ reported # NoErr

(***************************************************************************)
(* Properties of the record of what emitAssets has written                 *)
(***************************************************************************)

\* C28: when the asset writes of an emitAssets have ended, in whatever
\* order, a Source whose recorded generation for a target path is the
\* current generation of the path is the Source whose content the file at
\* the path holds, also with two assets of one compilation that have the
\* same target path.
C28_RecordedGenerationMeansContent ==
    tasks = {} =>
      \A source \in Sources, p \in Paths :
        (/\ writtenFiles[p] # 0
         /\ sourceCache[source].writtenTo[p] = writtenFiles[p])
          => disk[p] = getContent(source)

(***************************************************************************)
(* Properties of the order of emitAssets                                   *)
(***************************************************************************)

\* The steps of emitAssets up to the end of the asset iterations
EmitSteps == { "emit", "mkdirp", "assets" }

\* The places in the log of the run of the event `name` of Compilation `c`
Logged(name, c) == { i \in DOMAIN log : log[i] = Ev(name, c) }

\* The event `first` comes before every event `second` of a Compilation
Before(first, second) ==
    \A i \in DOMAIN log :
       log[i].ev = second =>
          \E j \in 1..(i - 1) : log[j] = Ev(first, log[i].c)

\* The asset iterations in flight, by Compilation and file
Iterations(ts) == { <<t.c, t.file>> : t \in ts }

\* No asset iteration of the current Compilation is in flight
AssetsEnded(ts) == \A t \in ts : t.c # compilation

\* The emit hook comes before the directory creation and the asset writes:
\* iterations begin when mkdirp called back, and only iterations write.
EmitHookFirst ==
    /\ [](Before("emit", "mkdirp") /\ Before("mkdirp", "emitFiles")
          /\ Before("emitFiles", "afterEmit"))
    /\ [][Iterations(tasks') \ Iterations(tasks) # {} =>
            (pc = "mkdirp" /\ Logged("emit", compilation) # {})]_vars
    /\ [][disk' # disk => \E t \in tasks : t.pc = "writeFile"]_vars

\* An error of the emit hook, of mkdirp or of an asset iteration fails the
\* run with that error, and afterEmit is not called.
EmitErrorSkipsAfterEmit ==
    [][(pc \in EmitSteps /\ reported = NoErr /\ reported' # NoErr) =>
         /\ ~running' /\ pc' = "idle"
         /\ cbs' = <<[err |-> reported', stats |-> 0]>>
         /\ Logged("afterEmit", compilation)' = {}]_vars

\* C29 as stated: in emitAssets the emit hook is called before the output
\* directory is created and before any asset is written; the afterEmit hook
\* and the callback come only when every asset of the compilation has ended,
\* written or skipped; when the emit hook, the directory creation or a write
\* reports an error, afterEmit is not called and the callback gets that
\* error.
C29_CallbackAfterEveryAsset ==
    /\ EmitHookFirst
    /\ [][(pc \in {"mkdirp", "assets"} /\ pc' \notin {"mkdirp", "assets"}) =>
            AssetsEnded(tasks')]_vars
    /\ EmitErrorSkipsAfterEmit

\* C29: in emitAssets the emit hook is called before the output directory is
\* created and before any asset is written; the afterEmit hook, and the
\* callback without error, come only when every asset of the compilation has
\* ended, written or skipped; when the emit hook, the directory creation or
\* a write reports an error, afterEmit is not called and the callback gets
\* that error at once, while other assets may still be in flight.
C29_AfterEmitAfterEveryAsset ==
    /\ EmitHookFirst
    /\ [][(pc' = "afterEmit" /\ pc # "afterEmit") =>
            /\ pc \in {"mkdirp", "assets"}
            /\ AssetsEnded(tasks')
            /\ reported' = NoErr]_vars
    /\ [](pc = "afterEmit" => AssetsEnded(tasks))
    /\ EmitErrorSkipsAfterEmit

\* The write of one asset failed while the iteration of the other asset is
\* still in flight: the run has failed with that error, afterEmit was not
\* called.
C29_Witness ==
    /\ ~running /\ nRuns = 1
    /\ cbs = <<[err |-> "E_writeFile", stats |-> 0]>>
    /\ ~AssetsEnded(tasks)
    /\ Logged("emitFiles", compilation) # {}
    /\ Logged("afterEmit", compilation) = {}

(***************************************************************************)
(* Properties of the join of the resolve step                              *)
(***************************************************************************)

\* The places of the completions that reported an error
Failed == { i \in DOMAIN completions : completions[i].err # NoErr }

\* The first error a sub-task reported
FirstError == completions[CHOOSE i \in Failed : \A k \in Failed : i <= k].err

\* C30: the join made by needCalls for N sub-tasks calls its continuation
\* exactly once: without error when all N sub-tasks have called back without
\* error, or with the error as soon as the first sub-task reports one; the
\* sub-tasks that call back afterwards, with or without error, never call
\* the continuation again, whatever the order of the completions.
C30_ContinuationExactlyOnce ==
    needed > 0 =>
      /\ Len(continuations) <= 1
      /\ continuations =
           IF Failed # {} THEN <<FirstError>>
           ELSE IF Len(completions) = needed THEN <<NoErr>>
           ELSE <<>>

\* A join of three: the first sub-task succeeded, the second and the third
\* each reported an error; the continuation was called once, with the error
\* of the second.
C30_Witness ==
    /\ needed = 3
    /\ Len(completions) = 3
    /\ completions[1].err = NoErr
    /\ completions[2].err # NoErr
    /\ completions[3].err # NoErr
    /\ continuations = <<completions[2].err>>

(***************************************************************************)
(* Properties of getParser and getGenerator                                *)
(***************************************************************************)

\* The cache and the options object a call is about: calls without options
\* share EMPTY_OBJECT.
AskedOf(g) ==
    <<g.call.kind, g.call.type,
      IF g.call.options = "undefined" THEN EMPTY_OBJECT ELSE g.call.options>>

\* The calls about the key `k`, by place
GetsOf(k) == { i \in DOMAIN gets : AskedOf(gets[i]) = k }

\* C31: getParser, and likewise getGenerator, called any number of times on
\* one factory with the same type and the same options object returns the
\* same instance, and the createParser / createGenerator hook of the type
\* gives an instance once per distinct options object (calls without options
\* share one key); a creation that failed is not kept, so the next call runs
\* the hook again.
C31_OneInstancePerOptions ==
    /\ \A i, j \in DOMAIN gets :
         (~gets[i].threw /\ ~gets[j].threw) =>
            (gets[i].result = gets[j].result <=> AskedOf(gets[i]) = AskedOf(gets[j]))
    /\ \A k \in CacheKeys :
         LET failed == { i \in GetsOf(k) : gets[i].threw }
             given == { i \in GetsOf(k) : ~gets[i].threw }
         IN
         /\ hookRuns[k] = Cardinality(failed) + (IF given = {} THEN 0 ELSE 1)
         /\ given = {} <=> instanceCache[k] = NoInstance
         /\ \A i \in failed, j \in given : i < j

\* getParser without options failed once, then gave a parser, then gave the
\* same parser again: the hook ran twice.
C31_Witness ==
    /\ Len(gets) = 3
    /\ \A i \in 1..3 : gets[i].call = [kind |-> "parser", type |-> "json",
                                       options |-> "undefined"]
    /\ gets[1].threw
    /\ ~gets[2].threw /\ ~gets[3].threw
    /\ gets[3].result = gets[2].result
    /\ hookRuns[<<"parser", "json", EMPTY_OBJECT>>] = 2

(***************************************************************************)
(* Properties of the order index of harmony imports                        *)
(***************************************************************************)

\* The place of the import statement `i` among the import statements
ImportNumber(i) == Cardinality({ k \in ImportsOf(program) : k <= i })

\* The side-effect dependencies, in the order they were added
SideEffects ==
    SelectSeq(moduleDependencies,
              LAMBDA d : d.kind = "HarmonyImportSideEffectDependency")

\* The sources of the import statements, in the order of the module
SourcesImported ==
    LET imports == SelectSeq(program, LAMBDA st : st.kind = "import")
    IN [ n \in DOMAIN imports |-> imports[n].source ]

\* C32: within one parse the n-th import statement gets a side-effect
\* dependency whose order index is n (the counter starts at 1 and grows by
\* one per import statement), and every import-specifier dependency made for
\* a binding carries the order index of the import statement that declared
\* the binding, whatever the order in which the dependencies are factorized.
C32_OrderIndexIsImportNumber ==
    /\ \A n \in DOMAIN SideEffects :
         /\ SideEffects[n].sourceOrder = n
         /\ SideEffects[n].source = SourcesImported[n]
    /\ (walk.pass = "walk" => Len(SideEffects) = Len(SourcesImported))
    /\ \A d \in DOMAIN moduleDependencies :
         moduleDependencies[d].kind = "HarmonyImportSpecifierDependency" =>
            \E i \in ImportsOf(program) :
               /\ moduleDependencies[d].name \in Range(program[i].names)
               /\ moduleDependencies[d].sourceOrder = ImportNumber(i)
               /\ moduleDependencies[d].source = program[i].source

\* Two import statements, then the binding of the second is used: its
\* specifier dependency has order index 2, and it was factorized before the
\* side-effect dependency of the first import.
C32_Witness ==
    /\ Len(program) = 3
    /\ program[1].kind = "import" /\ program[2].kind = "import"
    /\ Len(moduleDependencies) = 3
    /\ moduleDependencies[3].kind = "HarmonyImportSpecifierDependency"
    /\ moduleDependencies[3].sourceOrder = 2
    /\ factorizeOrder = <<3, 2, 1>>

(***************************************************************************)
(* Properties of an array of externals                                     *)
(***************************************************************************)

\* The entries that give an external module or an error
Decisive == { k \in DOMAIN externals : externals[k].answer # "nothing" }

\* The first of them
FirstDecisive == CHOOSE k \in Decisive : \A m \in Decisive : k <= m

\* C33: with an array of externals the entries are consulted strictly in
\* array order, each at most once; the first entry that gives an external
\* module decides the result and no later entry is consulted; an error of an
\* entry stops the iteration; and the factorize callback is called exactly
\* once, with the module, the error, or nothing when no entry matches, for
\* every mix of entries that answer before they return and entries that
\* answer later.
C33_InOrderCallbackOnce ==
    LET c == externalsCall IN
    /\ c.consulted = [ k \in 1..Len(c.consulted) |-> k ]
    /\ Len(c.consulted) <= Len(externals)
    /\ Len(c.callbacks) <= 1
    /\ Cardinality(c.pending) <= 1
    /\ \A k \in Decisive : \A m \in Range(c.consulted) : m <= k
    /\ \A p \in c.pending :
         p.entry = Len(c.consulted) /\ c.callbacks = <<>>
    /\ (c.started /\ c.pending = {}) =>
         c.callbacks =
           IF Decisive = {}
           THEN << [kind |-> "nothing", entry |-> 0] >>
           ELSE << [kind |-> externals[FirstDecisive].answer,
                    entry |-> FirstDecisive] >>
    /\ (c.started /\ c.pending = {} /\ Decisive = {}) =>
         Len(c.consulted) = Len(externals)

\* The first entry answered later, with nothing; the second at once, with
\* nothing; the third later, with the module the callback got: three
\* entries consulted, one callback.
C33_Witness ==
    /\ Len(externals) = 3
    /\ externals[1] = [async |-> TRUE, answer |-> "nothing"]
    /\ externals[2] = [async |-> FALSE, answer |-> "nothing"]
    /\ externals[3] = [async |-> TRUE, answer |-> "module"]
    /\ externalsCall.pending = {}
    /\ externalsCall.consulted = <<1, 2, 3>>
    /\ externalsCall.callbacks = << [kind |-> "module", entry |-> 3] >>

(***************************************************************************)
(* Properties of the parameters of a module factory                        *)
(***************************************************************************)

\* The parameters a factory function is called with, which of them the
\* runtime requirements of the rendered module need, and the names they are
\* given when they are not needed
FactoryParameters == << "module", "exports", "__webpack_require__" >>
NeededParameters ==
    << renderCall.needModule, renderCall.needExports, renderCall.needRequire >>
UnusedParameters ==
    << "__unused_webpack_module", "__unused_webpack_exports", "none" >>

\* The call has returned the module wrapped in a factory function
FactoryRendered ==
    /\ rendered # NotRendered
    /\ rendered.kind = "source"
    /\ renderCall.factory # "false"

\* C34 as stated: in factory mode renderModule wraps the module in a
\* function whose parameter list holds only the parameters the runtime
\* requirements of the module need among module, exports and require, and
\* no parameter when none is needed.
C34_OnlyNeededParameters ==
    FactoryRendered =>
       /\ Range(rendered.args) =
            { FactoryParameters[k] : k \in { i \in 1..3 : NeededParameters[i] } }
       /\ Len(rendered.args) = Cardinality({ i \in 1..3 : NeededParameters[i] })

\* C34: in factory mode renderModule wraps the module in a function whose
\* parameter list ends with the last parameter the runtime requirements of
\* the module need among module, exports and require; a parameter before it
\* that is not needed keeps its place under an __unused_webpack_ name; there
\* is no parameter when none is needed.
C34_ParametersUpToLastNeeded ==
    FactoryRendered =>
       /\ \A k \in 1..3 :
            k \in DOMAIN rendered.args <=> \E i \in k..3 : NeededParameters[i]
       /\ \A k \in DOMAIN rendered.args :
            rendered.args[k] = IF NeededParameters[k] THEN FactoryParameters[k]
                               ELSE UnusedParameters[k]

\* Only require is needed: the function takes three parameters, the first
\* two under their unused names.
C34_Witness ==
    /\ FactoryRendered
    /\ NeededParameters = << FALSE, FALSE, TRUE >>
    /\ rendered.args = << "__unused_webpack_module", "__unused_webpack_exports",
                          "__webpack_require__" >>

(***************************************************************************)
(* Properties of the "use strict" directives of a chunk                    *)
(***************************************************************************)

\* The code of the module `i` is rendered under a "use strict" directive:
\* the prologue of the chunk, the one of its factory function, or the one
\* of the function an inlined entry is wrapped in.
UnderUseStrict(i) ==
    \/ strictMain.useStrict
    \/ /\ strictMain.chunkModules[i].kind = "source"
       /\ strictMain.chunkModules[i].useStrict
    \/ /\ strictMain.inlined[i].kind = "inlined"
       /\ strictMain.inlined[i].useStrict

\* The code of the module `i` is in the rendered chunk, once.
RenderedOnce(i) ==
    strictMain.chunkModules[i].kind = "source"
       <=> strictMain.inlined[i].kind # "inlined"

\* C35: renderMain adds the "use strict" prologue of the chunk when every
\* javascript module of the chunk is strict and does not add it when a
\* module is not strict; in the rendered chunk the code of every strict
\* module is under a "use strict" directive (of the chunk, of its factory or
\* of its inline wrapper) and the code of no module that is not strict is.
C35_UseStrictExactlyForStrictModules ==
    strictMain.rendered =>
       /\ strictMain.useStrict <=>
             \A i \in DOMAIN strictChunk.modules : strictChunk.modules[i].strict
       /\ \A i \in DOMAIN strictChunk.modules :
             /\ RenderedOnce(i)
             /\ UnderUseStrict(i) <=> strictChunk.modules[i].strict

\* A strict entry module rendered inline beside a module that is not
\* strict: no prologue, the entry is wrapped in a function with its own
\* directive, the factory of the other module has none.
C35_Witness ==
    /\ strictMain.rendered
    /\ strictChunk.allowInlineStartup
    /\ strictChunk.modules = << [strict |-> TRUE, entry |-> TRUE],
                                [strict |-> FALSE, entry |-> FALSE] >>
    /\ ~strictMain.useStrict
    /\ strictMain.inlined[1].iife /\ strictMain.inlined[1].useStrict
    /\ strictMain.chunkModules[2].kind = "source"
    /\ ~strictMain.chunkModules[2].useStrict

(***************************************************************************)
(* Properties of the header renderBootstrap renders                        *)
(***************************************************************************)

\* The statement is in the header of the rendered bootstrap
InHeader(statement) == statement \in Range(bootstrap.header)

\* The tree runtime requirements of the chunk hold the requirement
Required(requirement) == requirement \in chunk.requirements

\* The requirements that make renderBootstrap use the require function
NeedsRequireFunction ==
    chunk.requirements \cap { "require", "interceptModuleExecution",
                              "returnExportsFromRuntime", "module",
                              "exports" } # {}

\* C36 as stated: each piece of bootstrap code renderBootstrap emits (the
\* module cache object, the require function, the exposure of the module
\* factories, the exposure of the module cache, the interceptor array) is
\* emitted only if the tree runtime requirements of the chunk ask for that
\* capability, and each piece is switched independently of the others.
C36_EachPieceByItsOwnRequirement ==
    bootstrap # NoBootstrap =>
       /\ InHeader("var __webpack_module_cache__ = {}") <=> Required("moduleCache")
       /\ InHeader("function __webpack_require__") <=> Required("require")
       /\ InHeader("__webpack_require__.m = __webpack_modules__")
             <=> (Required("moduleFactories") \/ Required("moduleFactoriesAddOnly"))
       /\ InHeader("__webpack_require__.c = __webpack_module_cache__")
             <=> Required("moduleCache")
       /\ InHeader("__webpack_require__.i = []")
             <=> Required("interceptModuleExecution")

\* C36: each piece of bootstrap code renderBootstrap emits is emitted only
\* if the tree runtime requirements of the chunk need it: the require
\* function for require, module, exports, interceptModuleExecution or
\* returnExportsFromRuntime; the module cache object for the require
\* function or for moduleCache; the exposure of the module factories, of the
\* module cache and the interceptor array each for its own requirement.  The
\* pieces are not independent: the interceptor array comes with the require
\* function, the require function and the exposure of the module cache come
\* with the module cache object.
C36_EachPieceByItsRequirements ==
    bootstrap # NoBootstrap =>
       /\ InHeader("function __webpack_require__") <=> NeedsRequireFunction
       /\ InHeader("var __webpack_module_cache__ = {}")
             <=> (NeedsRequireFunction \/ Required("moduleCache"))
       /\ InHeader("__webpack_require__.m = __webpack_modules__")
             <=> (Required("moduleFactories") \/ Required("moduleFactoriesAddOnly"))
       /\ InHeader("__webpack_require__.c = __webpack_module_cache__")
             <=> Required("moduleCache")
       /\ InHeader("__webpack_require__.i = []")
             <=> Required("interceptModuleExecution")
       /\ InHeader("__webpack_require__.i = []")
             => InHeader("function __webpack_require__")
       /\ InHeader("function __webpack_require__")
             => InHeader("var __webpack_module_cache__ = {}")
       /\ InHeader("__webpack_require__.c = __webpack_module_cache__")
             => InHeader("var __webpack_module_cache__ = {}")

\* Only `module` is required: the header holds the module cache object and
\* the require function, though neither moduleCache nor require is required.
C36_Witness ==
    /\ bootstrap # NoBootstrap
    /\ chunk.requirements = {"module"}
    /\ bootstrap.header = << "var __webpack_module_cache__ = {}",
                             "function __webpack_require__" >>

\* The statements of the header that declare __webpack_require__, and the
\* ones that assign a property of it
RequireDeclarations ==
    { "function __webpack_require__", "var __webpack_require__ = {}" }
RequireProperties ==
    { "__webpack_require__.m = __webpack_modules__",
      "__webpack_require__.c = __webpack_module_cache__",
      "__webpack_require__.i = []",
      "__webpack_require__.x = function" }

\* Every statement of the header that assigns a property of
\* __webpack_require__ comes after a declaration of it.
DeclaredBeforeUse ==
    \A i \in DOMAIN bootstrap.header :
       bootstrap.header[i] \in RequireProperties =>
          \E j \in 1..(i - 1) : bootstrap.header[j] \in RequireDeclarations

\* C37 as stated: for every set of chunk runtime requirements, each
\* statement of the rendered bootstrap that assigns or reads a property of
\* __webpack_require__ (the exposure of the module factories, of the module
\* cache, the interceptor array, the startup function) is preceded in the
\* header by a declaration of __webpack_require__, the require function or
\* the require scope object.
C37_RequireDeclaredBeforeUse ==
    bootstrap # NoBootstrap => DeclaredBeforeUse

\* C37: for the sets of chunk runtime requirements that hold requireScope
\* or a requirement of the require function, each statement of the header
\* that assigns a property of __webpack_require__ is preceded by a
\* declaration of it; for the other sets the header declares none, whatever
\* it assigns.
C37_RequireDeclaredWhenScopeRequired ==
    bootstrap # NoBootstrap =>
       /\ (NeedsRequireFunction \/ Required("requireScope")) => DeclaredBeforeUse
       /\ ~(NeedsRequireFunction \/ Required("requireScope")) =>
             Range(bootstrap.header) \cap RequireDeclarations = {}

\* requireScope and moduleFactories are required: the header declares the
\* require scope object, then exposes the module factories on it.
C37_Witness ==
    /\ bootstrap # NoBootstrap
    /\ chunk.requirements = {"requireScope", "moduleFactories"}
    /\ bootstrap.header = << "var __webpack_require__ = {}",
                             "__webpack_require__.m = __webpack_modules__" >>

(***************************************************************************)
(* Template.getModulesArrayBounds                                          *)
(***************************************************************************)

\* The number of decimal digits of an id of the model
DecimalLength(n) == IF n < 10 THEN 1 ELSE IF n < 100 THEN 2 ELSE 3

\* The ids of the modules given, as a set
GivenIds == { chunkModuleList[i].id : i \in DOMAIN chunkModuleList }
GivenNumbers == { id.value : id \in GivenIds }

RECURSIVE KeyLengths(_)
\* The sum over the ids of digits(id) + 2
KeyLengths(numbers) ==
    IF numbers = {} THEN 0
    ELSE LET n == CHOOSE n \in numbers : TRUE
         IN DecimalLength(n) + 2 + KeyLengths(numbers \ {n})

LeastId == CHOOSE n \in GivenNumbers : \A k \in GivenNumbers : n <= k
GreatestId == CHOOSE n \in GivenNumbers : \A k \in GivenNumbers : k <= n
LowerBound == IF LeastId < 16 + DecimalLength(LeastId) THEN 0 ELSE LeastId
ArrayOverhead ==
    IF LowerBound = 0 THEN GreatestId
    ELSE 16 + DecimalLength(LeastId) + GreatestId
ObjectOverhead == KeyLengths(GivenNumbers) - 1

\* C38: getModulesArrayBounds returns false when an id is not a number;
\* otherwise it returns [minId, maxId], minId replaced by 0 when it is
\* smaller than 16 + its number of digits, exactly when the array overhead is
\* strictly smaller than the object overhead, and false otherwise: a function
\* of the set of the ids alone.
C38_BoundsFromTheSetOfIds ==
    arrayBounds # NotCalled =>
        IF \E id \in GivenIds : id.typeof # "number"
        THEN arrayBounds = NoBounds
        ELSE IF ArrayOverhead < ObjectOverhead
        THEN arrayBounds = [kind |-> "bounds", minId |-> LowerBound,
                            maxId |-> GreatestId]
        ELSE arrayBounds = NoBounds

\* Thirteen modules and more with ids from 18 on: the array keeps its lower
\* bound of 18.
C38_Witness ==
    /\ arrayBounds # NotCalled
    /\ arrayBounds.kind = "bounds"
    /\ arrayBounds.minId = 18
    /\ Len(chunkModuleList) >= 13

(***************************************************************************)
(* Template.renderChunkModules                                             *)
(***************************************************************************)

\* What the rendered array holds at the index k: Array(n).concat([...]) has
\* n holes before the elements of the literal.
ElementAt(k) ==
    IF k < chunkModulesSource.concat THEN Hole
    ELSE chunkModulesSource.elements[k - chunkModulesSource.concat + 1]

ArrayLength == chunkModulesSource.concat + Len(chunkModulesSource.elements)

\* The source the module at the place i of the list is rendered to
SourceOfModule(i) ==
    IF chunkModuleList[i].rendered
    THEN ModuleSourceOf(chunkModuleList[i].name)
    ELSE FalseSource

EntriesOf(id) ==
    { e \in DOMAIN chunkModulesSource.entries :
        chunkModulesSource.entries[e].key = id }

\* C39: renderChunkModules renders every module once under its own id: in
\* the array at the index that is its id, the other indexes being holes (or
\* false for a removed module), in the object under one key of its own; it
\* returns null exactly when there are no modules and no removed modules.
C39_EveryModuleUnderItsId ==
    chunkModulesSource # NotCalled =>
        /\ chunkModulesSource.kind = "null"
             <=> (chunkModuleList = <<>> /\ removedIds = {})
        /\ chunkModulesSource.kind = "array" =>
             /\ \A i \in DOMAIN chunkModuleList :
                  /\ chunkModuleList[i].id.value < ArrayLength
                  /\ ElementAt(chunkModuleList[i].id.value) = SourceOfModule(i)
             /\ \A k \in 0..(ArrayLength - 1) :
                  IF k \in GivenNumbers
                  THEN ElementAt(k).kind # "hole"
                  ELSE IF k \in removedIds THEN ElementAt(k) = FalseSource
                  ELSE ElementAt(k) = Hole
             /\ (chunkModulesSource.concat # 0
                   => chunkModulesSource.concat = LeastId)
        /\ chunkModulesSource.kind = "object" =>
             /\ \A i \in DOMAIN chunkModuleList :
                  \E e \in DOMAIN chunkModulesSource.entries :
                     /\ EntriesOf(chunkModuleList[i].id) = {e}
                     /\ chunkModulesSource.entries[e].source
                          = SourceOfModule(i)
             /\ Len(chunkModulesSource.entries)
                  = Len(chunkModuleList) + Cardinality(removedIds)

\* An array behind Array(18).concat( with a module missing at 19: the module
\* with the id 20 stands at the index 20, the index 19 is a hole.
C39_Witness ==
    /\ chunkModulesSource # NotCalled
    /\ chunkModulesSource.kind = "array"
    /\ chunkModulesSource.concat = 18
    /\ 19 \notin GivenNumbers
    /\ removedIds = {}
    /\ ElementAt(19) = Hole
    /\ ElementAt(20).kind = "source"

(***************************************************************************)
(* The modules of a chunk are processed in the order of their identifiers  *)
(***************************************************************************)

ModulesOfBuild(b) ==
    { insertionOrder[b][i] : i \in DOMAIN insertionOrder[b] }

====
